---- MODULE Spec2Model ----
(***************************************************************************)
(* Handle-wrapping chassis of the Vulkan validation layers:                *)
(*   layers/chassis/dispatch_object.h      HashedUint64, HandleWrapper,    *)
(*                                         Instance::MaybeWrapDisplay      *)
(*   layers/containers/custom_containers.h small_container                 *)
(*                                                                         *)
(* A uint64_t handle or id is the record [hi, lo]: lo is the value's low   *)
(* HASHED_UINT64_SHIFT bits and hi the 64 - HASHED_UINT64_SHIFT bits above *)
(* them, so the value is hi * 2^40 + lo.                                   *)
(***************************************************************************)
EXTENDS Integers, Sequences, FiniteSets, TLC

VARIABLES
    global_unique_id,            \* HandleWrapper::global_unique_id (atomic counter)
    unique_id_mapping,           \* HandleWrapper::unique_id_mapping: id -> real handle
    display_id_reverse_mapping,  \* Instance::display_id_reverse_mapping: real -> id
    vvl_hash,                    \* vvl::hash<uint64_t> of this build
    threads,                     \* the client threads that call into the chassis
    pc,                          \* per thread: where it stands in its current call
    arg,                         \* per thread: the handle argument of its current call
    unique_id,                   \* per thread: WrapNew's local unique_id (counter value read)
    caller,                      \* per thread: who called WrapNew (client / MaybeWrapDisplay)
    mwd_unique_id,               \* per thread: MaybeWrapDisplay's local unique_id
    issued,                      \* history: ids returned by WrapNew, in order
    erased,                      \* history: ids that Erase has been called with
    display_ret,                 \* history: per real display, ids MaybeWrapDisplay returned
    ret,                         \* per thread: the call that has just returned, and its result
    max_wraps,                   \* the number of ids the run may issue
    small_data_allocated,        \* small_container::small_data_allocated[N]
    small_data,                  \* small_container::small_data[N]
    inner_cont,                  \* small_container::inner_cont
    plain,                       \* a plain hash map driven by the same operations
    insert_ret,                  \* what insert returned (iterator index, bool) when it ran last
    inner_order,                 \* the order in which inner_cont's iterators run through it
    iter,                        \* the iterator of the loop "for (it = begin(); it != end(); ++it)"
    visited,                     \* history: the elements operator* returned in the loop
    subscript_ret,               \* the T that operator[] returned a reference to, when it ran
                                 \* last, with history: had it to add the key, over which pair
    vec,                         \* per small_vector object: size_, capacity_, large_store_,
                                 \* working_store_ and the objects in its working store
    pushed_only,                 \* history: per small_vector, only emplace_back since construction
    last_op,                     \* history: the small_vector operation that ran last
    assert_failed,               \* an assert of small_vector has ended the process
    payload_,                    \* TlsGuard<T>::payload_, per thread: has_value()
    guard,                       \* per thread: the live TlsGuard object (skip_, persist_)
    skip,                        \* per thread: the bool a validate-phase guard's skip_ points to
    tls_pc,                      \* per thread: the phase of the call it is in
    tls_assert_failed,           \* an assert of TlsGuard has ended the process
    scope_state,                 \* lifecycle of the Device scope object
    settings,                    \* Device::settings: the components that are enabled
    implements,                  \* per component: the entry points it overrides
    object_dispatch,             \* Device::object_dispatch: the active chain
    aborted_object_dispatch,     \* Device::aborted_object_dispatch: the aborted chain
    intercept_vectors,           \* Device::intercept_vectors: per entry point, its components
    initialized,                 \* the components whose initialization has run
    call,                        \* the intercepted call in progress: entry point, phase, position
    dispatch_trace,              \* history: what the call in progress, or the last one, has run
    teardown_order,              \* history: the components torn down, in the order it was done
    owned,                       \* the virtual ids wrapped through the scope and not destroyed
    deferred_operation_post_completion,  \* Device: operation -> completion callbacks
    deferred_operation_post_check,       \* Device: operation -> result-inspection callbacks
    deferred_operation_pipelines,        \* Device: operation -> produced pipelines
    operation_state,             \* the implementation: "none", "deferred" or "complete" per operation
    next_callback,               \* the identity of the next callback to be registered
    poll,                        \* the polling thread: position, operation and drained lists
    invoked,                     \* history: the callbacks invoked, with what they were handed
    hash_in,                     \* HashedUint64::hash: the id and vvl::hash(id) of two calls
    hash_out                     \* what the two calls returned, once they have

hwVars == <<global_unique_id, unique_id_mapping, display_id_reverse_mapping, vvl_hash,
            threads, pc, arg, unique_id, caller, mwd_unique_id,
            issued, erased, display_ret, ret, max_wraps>>

itVars == <<inner_order, iter, visited>>

scVars == <<small_data_allocated, small_data, inner_cont, plain, insert_ret, subscript_ret, itVars>>

svVars == <<vec, pushed_only, last_op, assert_failed>>

tgVars == <<payload_, guard, skip, tls_pc, tls_assert_failed>>

dpVars == <<scope_state, settings, implements, object_dispatch, aborted_object_dispatch,
            intercept_vectors, initialized, call, dispatch_trace>>

tdVars == <<teardown_order, owned>>

dfVars == <<deferred_operation_post_completion, deferred_operation_post_check,
            deferred_operation_pipelines, operation_state, next_callback, poll, invoked>>

hfVars == <<hash_in, hash_out>>

vars == <<hwVars, scVars, svVars, tgVars, dpVars, tdVars, dfVars, hfVars>>

\* what the steps of each component leave alone
notHandleWrapper == <<scVars, svVars, tgVars, dpVars, tdVars, dfVars, hfVars>>
notSmallContainer == <<hwVars, svVars, tgVars, dpVars, tdVars, dfVars, hfVars>>
notSmallVector == <<hwVars, scVars, tgVars, dpVars, tdVars, dfVars, hfVars>>
notTlsGuard == <<hwVars, scVars, svVars, dpVars, tdVars, dfVars, hfVars>>
notDispatch == <<hwVars, scVars, svVars, tgVars, tdVars, dfVars, hfVars>>
notScope == <<scVars, svVars, tgVars, dfVars, hfVars>>
notHash == <<hwVars, scVars, svVars, tgVars, dpVars, tdVars, dfVars>>
notDeferred == <<hwVars, scVars, svVars, tgVars, dpVars, tdVars, hfVars>>

----------------------------------------------------------------------------
(* Bounds of the model *)

\* WrapNew is called on non-null handles at most this many times
MaxWraps == 3

\* the same, when two threads call concurrently
MaxConcurrentWraps == 2

\* inline capacity of the small_container (its template parameter N)
N == 2

\* the number of validation components a scope can enable
NumComponents == 3

\* WrapNew is called at most this many times while a Device scope lives
MaxDeviceWraps == 2

\* at most this many callbacks are registered for deferred operations
MaxCallbacks == 3

----------------------------------------------------------------------------
(* uint64_t values *)

HASHED_UINT64_SHIFT == 40

\* number of values of the bits above HASHED_UINT64_SHIFT in a uint64_t
HighRange == 2 ^ (64 - HASHED_UINT64_SHIFT)

U64(h, l) == [hi |-> h, lo |-> l]

VK_NULL_HANDLE == U64(0, 0)

\* (HandleType)0 / CastFromUint<HandleType>(0ULL): what a failed lookup returns
InvalidHandle == U64(0, 0)

\* the real handles the driver hands out: null and two objects
RealHandles == {VK_NULL_HANDLE, U64(0, 1), U64(0, 2)}

AllThreads == {"t1", "t2"}

\* the value the counter holds before the first WrapNew
global_unique_id_init == 1

CounterValues == 0..(global_unique_id_init + MaxWraps)

\* vvl::hash is std::hash (the identity on uint64_t) or robin_hood::hash, by build:
\* the identity, the constant 0, and a function whose values exceed 24 bits and collide
StdHash == [c \in CounterValues |-> c]

HashFunctions ==
    { StdHash,
      [c \in CounterValues |-> 0],
      [c \in CounterValues |-> HighRange + (c % 2)] }

\* the hash functions of the runs with two threads
ConcurrentHashFunctions ==
    { StdHash,
      [c \in CounterValues |-> HighRange + (c % 2)] }

\* HashedUint64::hash that stores the hash bits and loses the counter value
HashedUint64_hash_only(id) ==
    U64(vvl_hash[id] % HighRange, 0)

\* HashedUint64::hash: id |= h << HASHED_UINT64_SHIFT. The shift drops the bits of h
\* above 64 - HASHED_UINT64_SHIFT; id is a counter value below 2^HASHED_UINT64_SHIFT,
\* so it has no bit above the shift and the OR leaves h's bits there.
HashedUint64_hash(id) ==
    LET h == vvl_hash[id]
    IN  U64(h % HighRange, id)

\* HashedUint64::operator(): t >> HASHED_UINT64_SHIFT
HashedUint64_call(t) == t.hi

\* a | b on unsigned integers, bit by bit
RECURSIVE BitOr(_, _)
BitOr(a, b) ==
    IF a = 0 THEN b
    ELSE IF b = 0 THEN a
    ELSE (IF a % 2 = 1 \/ b % 2 = 1 THEN 1 ELSE 0) + 2 * BitOr(a \div 2, b \div 2)

\* h << HASHED_UINT64_SHIFT on a uint64_t: the low 64 - HASHED_UINT64_SHIFT bits of h
\* move above the shift, the bits of h above them are lost, zeros come in below
ShiftLeft(h) == U64(h.lo % HighRange, 0)

\* a | b on uint64_t
Or64(a, b) == U64(BitOr(a.hi, b.hi), BitOr(a.lo, b.lo))

\* HashedUint64::hash that assigns the shifted hash where the code ORs it in
HashedUint64_hash_assign(id, h) == ShiftLeft(h)

\* HashedUint64::hash on any uint64_t id, h the value of vvl::hash<uint64_t>()(id):
\* id |= h << HASHED_UINT64_SHIFT; return id
HashedUint64_hash_bits(id, h) == Or64(id, ShiftLeft(h))

\* ids and hash values on both sides of the widths: the low part stands for the bits
\* below HASHED_UINT64_SHIFT, bit 30 for a high bit among them
IdInputs ==
    {U64(0, 0), U64(0, 1), U64(0, 2), U64(0, 2 ^ 30), U64(0, 2 ^ 30 + 1),
     U64(1, 0), U64(1, 1), U64(HighRange - 1, 2)}

HashInputs ==
    {U64(0, 0), U64(0, 1), U64(0, HighRange - 1), U64(0, HighRange),
     U64(0, HighRange + 1), U64(5, 2 ^ 30 + 3)}

Calls == {"first", "second"}

NotReturned == [returned |-> FALSE, value |-> U64(0, 0)]

\* one call of HashedUint64::hash
Hash(c) ==
    /\ ~hash_out[c].returned
    /\ hash_out' = [hash_out EXCEPT ![c] =
           [returned |-> TRUE,
            value |-> HashedUint64_hash_bits(hash_in[c].id, hash_in[c].h)]]
    /\ UNCHANGED hash_in
    /\ UNCHANGED notHash

\* the runs of the other components make no call
InitNoHash ==
    /\ hash_in = [c \in Calls |-> [id |-> U64(0, 0), h |-> U64(0, 0)]]
    /\ hash_out = [c \in Calls |-> NotReturned]

\* vvl::hash is a function: the same id comes with the same hash value
InitHash ==
    /\ hash_in \in [Calls -> [id : IdInputs, h : HashInputs]]
    /\ \A c, d \in Calls : hash_in[c].id = hash_in[d].id => hash_in[c].h = hash_in[d].h
    /\ hash_out = [c \in Calls |-> NotReturned]

NextHash == \E c \in Calls : Hash(c)

----------------------------------------------------------------------------
(* History *)

IssuedIds == {issued[i].id : i \in DOMAIN issued}

IssuedReal(id) == issued[CHOOSE i \in DOMAIN issued : issued[i].id = id].real

Live(id) == id \in IssuedIds /\ id \notin erased

NoCall == [op |-> "none", arg |-> VK_NULL_HANDLE, ret |-> VK_NULL_HANDLE]

Returned(o, a, r) == [op |-> o, arg |-> a, ret |-> r]

\* the virtual handles a client passes to Unwrap, Find and Erase: null, every id
\* WrapNew can issue, and for each of them a value with the same low bits that is
\* never issued
WrappedInputs ==
    {VK_NULL_HANDLE}
        \cup {HashedUint64_hash(c) : c \in 1..MaxWraps}
        \cup {U64((HashedUint64_hash(c).hi + 1) % HighRange, c) : c \in 1..MaxWraps}

----------------------------------------------------------------------------
(* HandleWrapper *)

\* a call returns r to the client; its locals die with its frame
Return(t, o, a, r) ==
    /\ pc' = [pc EXCEPT ![t] = "returned"]
    /\ ret' = [ret EXCEPT ![t] = Returned(o, a, r)]
    /\ arg' = [arg EXCEPT ![t] = VK_NULL_HANDLE]
    /\ unique_id' = [unique_id EXCEPT ![t] = 0]
    /\ caller' = [caller EXCEPT ![t] = "client"]
    /\ mwd_unique_id' = [mwd_unique_id EXCEPT ![t] = VK_NULL_HANDLE]

\* the client takes the result and is free to make its next call
Resume(t) ==
    /\ t \in threads
    /\ pc[t] = "returned"
    /\ pc' = [pc EXCEPT ![t] = "idle"]
    /\ ret' = [ret EXCEPT ![t] = NoCall]
    /\ UNCHANGED <<global_unique_id, unique_id_mapping, display_id_reverse_mapping,
                   vvl_hash, threads, max_wraps, arg, unique_id, caller, mwd_unique_id,
                   issued, erased, display_ret>>
    /\ UNCHANGED notHandleWrapper

\* Unwrap that hands an unknown handle back unchanged
Unwrap_passthrough(t, wrapped_handle) ==
    /\ t \in threads
    /\ pc[t] = "idle"
    /\ Return(t, "Unwrap", wrapped_handle,
              IF wrapped_handle \in DOMAIN unique_id_mapping
              THEN unique_id_mapping[wrapped_handle]
              ELSE wrapped_handle)
    /\ UNCHANGED <<global_unique_id, unique_id_mapping, display_id_reverse_mapping,
                   vvl_hash, threads, max_wraps, issued, erased, display_ret>>
    /\ UNCHANGED notHandleWrapper

\* HandleWrapper::Unwrap: one find() on the map
Unwrap(t, wrapped_handle) ==
    /\ t \in threads
    /\ pc[t] = "idle"
    /\ Return(t, "Unwrap", wrapped_handle,
              IF wrapped_handle = VK_NULL_HANDLE THEN wrapped_handle
              ELSE IF wrapped_handle \notin DOMAIN unique_id_mapping THEN InvalidHandle
              ELSE unique_id_mapping[wrapped_handle])
    /\ UNCHANGED <<global_unique_id, unique_id_mapping, display_id_reverse_mapping,
                   vvl_hash, threads, max_wraps, issued, erased, display_ret>>
    /\ UNCHANGED notHandleWrapper

\* Find that looks the id up with operator[], which inserts a default entry
Find_subscript(t, wrapped_handle) ==
    /\ t \in threads
    /\ pc[t] = "idle"
    /\ Return(t, "Find", wrapped_handle,
              IF wrapped_handle \in DOMAIN unique_id_mapping
              THEN unique_id_mapping[wrapped_handle]
              ELSE InvalidHandle)
    /\ unique_id_mapping' =
           [k \in DOMAIN unique_id_mapping \cup {wrapped_handle} |->
               IF k \in DOMAIN unique_id_mapping THEN unique_id_mapping[k]
               ELSE InvalidHandle]
    /\ UNCHANGED <<global_unique_id, display_id_reverse_mapping,
                   vvl_hash, threads, max_wraps, issued, erased, display_ret>>
    /\ UNCHANGED notHandleWrapper

\* HandleWrapper::Find: one find() on the map
Find(t, wrapped_handle) ==
    /\ t \in threads
    /\ pc[t] = "idle"
    /\ Return(t, "Find", wrapped_handle,
              IF wrapped_handle \in DOMAIN unique_id_mapping
              THEN unique_id_mapping[wrapped_handle]
              ELSE InvalidHandle)
    /\ UNCHANGED <<global_unique_id, unique_id_mapping, display_id_reverse_mapping,
                   vvl_hash, threads, max_wraps, issued, erased, display_ret>>
    /\ UNCHANGED notHandleWrapper

\* Erase that uses find() where the code uses pop(): the entry stays
Erase_find(t, wrapped_handle) ==
    /\ t \in threads
    /\ pc[t] = "idle"
    /\ Return(t, "Erase", wrapped_handle,
              IF wrapped_handle \in DOMAIN unique_id_mapping
              THEN unique_id_mapping[wrapped_handle]
              ELSE InvalidHandle)
    /\ erased' = erased \cup ({wrapped_handle} \cap IssuedIds)
    /\ UNCHANGED <<global_unique_id, unique_id_mapping, display_id_reverse_mapping,
                   vvl_hash, threads, max_wraps, issued, display_ret>>
    /\ UNCHANGED notHandleWrapper

\* Erase that matches entries on the counter bits of the id alone
Erase_counter_bits(t, wrapped_handle) ==
    /\ t \in threads
    /\ pc[t] = "idle"
    /\ Return(t, "Erase", wrapped_handle,
              IF wrapped_handle \in DOMAIN unique_id_mapping
              THEN unique_id_mapping[wrapped_handle]
              ELSE InvalidHandle)
    /\ unique_id_mapping' =
           [k \in {j \in DOMAIN unique_id_mapping : j.lo # wrapped_handle.lo} |->
               unique_id_mapping[k]]
    /\ erased' = erased \cup ({wrapped_handle} \cap IssuedIds)
    /\ UNCHANGED <<global_unique_id, display_id_reverse_mapping,
                   vvl_hash, threads, max_wraps, issued, display_ret>>
    /\ UNCHANGED notHandleWrapper

\* HandleWrapper::Erase: one pop() on the map, which removes the entry it finds
Erase(t, wrapped_handle) ==
    /\ t \in threads
    /\ pc[t] = "idle"
    /\ Return(t, "Erase", wrapped_handle,
              IF wrapped_handle \in DOMAIN unique_id_mapping
              THEN unique_id_mapping[wrapped_handle]
              ELSE InvalidHandle)
    /\ unique_id_mapping' =
           [k \in DOMAIN unique_id_mapping \ {wrapped_handle} |-> unique_id_mapping[k]]
    /\ erased' = erased \cup ({wrapped_handle} \cap IssuedIds)
    /\ UNCHANGED <<global_unique_id, display_id_reverse_mapping,
                   vvl_hash, threads, max_wraps, issued, display_ret>>
    /\ UNCHANGED notHandleWrapper

\* WrapNew on a plain uint64_t counter: the increment of a thread that reads the
\* counter while another thread is between its read and its write is lost
WrapNew_reserve_plain(t, new_created_handle, from) ==
    /\ global_unique_id < global_unique_id_init + max_wraps
    /\ IF \E u \in threads \ {t} : pc[u] = "WrapNew_insert"
       THEN /\ unique_id' = [unique_id EXCEPT ![t] = global_unique_id - 1]
            /\ UNCHANGED global_unique_id
       ELSE /\ unique_id' = [unique_id EXCEPT ![t] = global_unique_id]
            /\ global_unique_id' = global_unique_id + 1
    /\ arg' = [arg EXCEPT ![t] = new_created_handle]
    /\ caller' = [caller EXCEPT ![t] = from]
    /\ pc' = [pc EXCEPT ![t] = "WrapNew_insert"]

\* HandleWrapper::WrapNew on a non-null handle, up to global_unique_id++: the atomic
\* read-and-increment of the counter
WrapNew_reserve(t, new_created_handle, from) ==
    /\ global_unique_id < global_unique_id_init + max_wraps
    /\ unique_id' = [unique_id EXCEPT ![t] = global_unique_id]
    /\ global_unique_id' = global_unique_id + 1
    /\ arg' = [arg EXCEPT ![t] = new_created_handle]
    /\ caller' = [caller EXCEPT ![t] = from]
    /\ pc' = [pc EXCEPT ![t] = "WrapNew_insert"]

\* WrapNew without the null check
WrapNew_no_null_check(t, new_created_handle) ==
    /\ t \in threads
    /\ pc[t] = "idle"
    /\ WrapNew_reserve(t, new_created_handle, "client")
    /\ UNCHANGED <<ret, mwd_unique_id>>
    /\ UNCHANGED <<unique_id_mapping, display_id_reverse_mapping, vvl_hash, threads, max_wraps,
                   issued, erased, display_ret>>
    /\ UNCHANGED notHandleWrapper

\* a client's call of WrapNew: the null check, then the counter
WrapNew(t, new_created_handle) ==
    /\ t \in threads
    /\ pc[t] = "idle"
    /\ IF new_created_handle = VK_NULL_HANDLE
       THEN /\ Return(t, "WrapNew", new_created_handle, new_created_handle)
            /\ UNCHANGED global_unique_id
       ELSE /\ WrapNew_reserve(t, new_created_handle, "client")
            /\ UNCHANGED <<ret, mwd_unique_id>>
    /\ UNCHANGED <<unique_id_mapping, display_id_reverse_mapping, vvl_hash, threads, max_wraps,
                   issued, erased, display_ret>>
    /\ UNCHANGED notHandleWrapper

\* HandleWrapper::WrapNew from HashedUint64::hash on: insert_or_assign and return
WrapNew_insert(t) ==
    /\ t \in threads
    /\ pc[t] = "WrapNew_insert"
    /\ LET id == HashedUint64_hash(unique_id[t])
       IN  /\ unique_id_mapping' =
                  [k \in DOMAIN unique_id_mapping \cup {id} |->
                      IF k = id THEN arg[t] ELSE unique_id_mapping[k]]
           /\ issued' = Append(issued, [id |-> id, real |-> arg[t], via |-> caller[t]])
           /\ IF caller[t] = "client"
              THEN Return(t, "WrapNew", arg[t], id)
              ELSE /\ mwd_unique_id' = [mwd_unique_id EXCEPT ![t] = id]
                   /\ unique_id' = [unique_id EXCEPT ![t] = 0]
                   /\ pc' = [pc EXCEPT ![t] = "MaybeWrapDisplay_assign"]
                   /\ UNCHANGED <<ret, arg, caller>>
    /\ UNCHANGED <<global_unique_id, display_id_reverse_mapping, vvl_hash, threads, max_wraps,
                   erased, display_ret>>
    /\ UNCHANGED notHandleWrapper

----------------------------------------------------------------------------
(* Instance *)

\* Instance::MaybeWrapDisplay: the find() on the reverse map
MaybeWrapDisplay(t, handle) ==
    /\ t \in threads
    /\ pc[t] = "idle"
    /\ IF handle \in DOMAIN display_id_reverse_mapping
       THEN /\ Return(t, "MaybeWrapDisplay", handle, display_id_reverse_mapping[handle])
            /\ display_ret' = [display_ret EXCEPT
                   ![handle] = @ \cup {display_id_reverse_mapping[handle]}]
       ELSE /\ pc' = [pc EXCEPT ![t] = "MaybeWrapDisplay_wrap"]
            /\ arg' = [arg EXCEPT ![t] = handle]
            /\ caller' = [caller EXCEPT ![t] = "MaybeWrapDisplay"]
            /\ UNCHANGED <<ret, display_ret, unique_id, mwd_unique_id>>
    /\ UNCHANGED <<global_unique_id, unique_id_mapping, display_id_reverse_mapping,
                   vvl_hash, threads, max_wraps, issued, erased>>
    /\ UNCHANGED notHandleWrapper

\* Instance::MaybeWrapDisplay: the call of WrapNew(handle), up to global_unique_id++
MaybeWrapDisplay_wrap(t) ==
    /\ t \in threads
    /\ pc[t] = "MaybeWrapDisplay_wrap"
    /\ IF arg[t] = VK_NULL_HANDLE
       THEN /\ mwd_unique_id' = [mwd_unique_id EXCEPT ![t] = arg[t]]
            /\ pc' = [pc EXCEPT ![t] = "MaybeWrapDisplay_assign"]
            /\ UNCHANGED <<global_unique_id, arg, unique_id, caller>>
       ELSE /\ WrapNew_reserve(t, arg[t], "MaybeWrapDisplay")
            /\ UNCHANGED mwd_unique_id
    /\ UNCHANGED <<unique_id_mapping, display_id_reverse_mapping, vvl_hash, threads, max_wraps,
                   issued, erased, display_ret, ret>>
    /\ UNCHANGED notHandleWrapper

\* MaybeWrapDisplay that returns the new id without recording it in the reverse map
MaybeWrapDisplay_assign_forgets(t) ==
    /\ t \in threads
    /\ pc[t] = "MaybeWrapDisplay_assign"
    /\ Return(t, "MaybeWrapDisplay", arg[t], mwd_unique_id[t])
    /\ display_ret' = [display_ret EXCEPT ![arg[t]] = @ \cup {mwd_unique_id[t]}]
    /\ UNCHANGED <<global_unique_id, unique_id_mapping, display_id_reverse_mapping,
                   vvl_hash, threads, max_wraps, issued, erased>>
    /\ UNCHANGED notHandleWrapper

\* MaybeWrapDisplay that records the id without the hash bits
MaybeWrapDisplay_assign_low_bits(t) ==
    /\ t \in threads
    /\ pc[t] = "MaybeWrapDisplay_assign"
    /\ display_id_reverse_mapping' =
           [k \in DOMAIN display_id_reverse_mapping \cup {arg[t]} |->
               IF k = arg[t] THEN U64(0, mwd_unique_id[t].lo)
               ELSE display_id_reverse_mapping[k]]
    /\ Return(t, "MaybeWrapDisplay", arg[t], mwd_unique_id[t])
    /\ display_ret' = [display_ret EXCEPT ![arg[t]] = @ \cup {mwd_unique_id[t]}]
    /\ UNCHANGED <<global_unique_id, unique_id_mapping, vvl_hash, threads, max_wraps,
                   issued, erased>>
    /\ UNCHANGED notHandleWrapper

\* Instance::MaybeWrapDisplay: insert_or_assign on the reverse map and return
MaybeWrapDisplay_assign(t) ==
    /\ t \in threads
    /\ pc[t] = "MaybeWrapDisplay_assign"
    /\ display_id_reverse_mapping' =
           [k \in DOMAIN display_id_reverse_mapping \cup {arg[t]} |->
               IF k = arg[t] THEN mwd_unique_id[t] ELSE display_id_reverse_mapping[k]]
    /\ Return(t, "MaybeWrapDisplay", arg[t], mwd_unique_id[t])
    /\ display_ret' = [display_ret EXCEPT ![arg[t]] = @ \cup {mwd_unique_id[t]}]
    /\ UNCHANGED <<global_unique_id, unique_id_mapping, vvl_hash, threads, max_wraps,
                   issued, erased>>
    /\ UNCHANGED notHandleWrapper

----------------------------------------------------------------------------
(* small_container, as small_unordered_map<Key, T, N>: value_type is the pair      *)
(* [first, second]. small_unordered_set<Key, N> is the same container with the     *)
(* pair reduced to its key: its runs are the runs that use one value of T.         *)

Keys == 1..(N + 1)

MappedValues == {"x", "y"}

value_type == [first : Keys, second : MappedValues]

Slots == 0..(N - 1)

\* value_type_helper_map::compare_equal(lhs, key)
compare_equal(lhs, key) == lhs.first = key

\* value_type_helper_map::get_key
get_key(value) == value.first

\* the slots a "for (i = 0; i < N; ++i) if (small_data_allocated[i] && compare_equal)"
\* loop stops at
MatchingSlots(key) ==
    {i \in Slots : small_data_allocated[i] /\ compare_equal(small_data[i], key)}

FreeSlots == {i \in Slots : ~small_data_allocated[i]}

\* the first slot of a set of slots, in the order the loops scan them
FirstSlot(S) == CHOOSE i \in S : \A j \in S : i <= j

\* inner_cont.find(key) != inner_cont.end()
InnerFinds(key) == \E e \in inner_cont : e.first = key

\* small_container::contains
contains(key) ==
    IF MatchingSlots(key) # {} THEN TRUE
    ELSE IF Cardinality(inner_cont) = 0 THEN FALSE
    ELSE InnerFinds(key)

\* small_container::count
count(key) == IF contains(key) THEN 1 ELSE 0

\* small_container::size
size == Cardinality(inner_cont) + Cardinality({i \in Slots : small_data_allocated[i]})

\* small_container::empty
empty ==
    IF \E i \in Slots : small_data_allocated[i] THEN FALSE
    ELSE Cardinality(inner_cont) = 0

\* insert that looks for the key in the inline slots only
insert_second_inline_only(value) ==
    MatchingSlots(get_key(value)) = {}

\* small_container::insert, the bool of the pair it returns
insert_second(value) ==
    IF MatchingSlots(get_key(value)) # {} THEN FALSE
    ELSE IF Cardinality(inner_cont) > 0 /\ InnerFinds(get_key(value)) THEN FALSE
    ELSE TRUE

\* insert that goes to inner_cont once inner_cont holds an element
insert_overflow_first(value) ==
    IF ~insert_second(value)
    THEN UNCHANGED <<small_data_allocated, small_data, inner_cont>>
    ELSE IF FreeSlots # {} /\ inner_cont = {}
         THEN LET i == FirstSlot(FreeSlots)
              IN  /\ small_data_allocated' = [small_data_allocated EXCEPT ![i] = TRUE]
                  /\ small_data' = [small_data EXCEPT ![i] = value]
                  /\ UNCHANGED inner_cont
         ELSE /\ inner_cont' = inner_cont \cup {value}
              /\ UNCHANGED <<small_data_allocated, small_data>>

\* small_container::insert, its effect: nothing when the key is stored, else the
\* first free inline slot, else inner_cont.insert(value)
insert(value) ==
    IF ~insert_second(value)
    THEN UNCHANGED <<small_data_allocated, small_data, inner_cont>>
    ELSE IF FreeSlots # {}
         THEN LET i == FirstSlot(FreeSlots)
              IN  /\ small_data_allocated' = [small_data_allocated EXCEPT ![i] = TRUE]
                  /\ small_data' = [small_data EXCEPT ![i] = value]
                  /\ UNCHANGED inner_cont
         ELSE /\ inner_cont' = inner_cont \cup {value}
              /\ UNCHANGED <<small_data_allocated, small_data>>

\* small_container::insert, the index of the iterator it returns: the slot, or N for
\* an element of inner_cont
insert_index(value) ==
    IF MatchingSlots(get_key(value)) # {} THEN FirstSlot(MatchingSlots(get_key(value)))
    ELSE IF Cardinality(inner_cont) > 0 /\ InnerFinds(get_key(value)) THEN N
    ELSE IF FreeSlots # {} THEN FirstSlot(FreeSlots)
    ELSE N

\* small_container::erase, the count it returns
erase_count(key) ==
    IF MatchingSlots(key) # {} THEN 1
    ELSE Cardinality({e \in inner_cont : e.first = key})

\* small_container::erase, its effect
erase(key) ==
    IF MatchingSlots(key) # {}
    THEN /\ small_data_allocated' =
                [small_data_allocated EXCEPT ![FirstSlot(MatchingSlots(key))] = FALSE]
         /\ UNCHANGED <<small_data, inner_cont>>
    ELSE /\ inner_cont' = {e \in inner_cont : e.first # key}
         /\ UNCHANGED <<small_data_allocated, small_data>>

\* small_container::clear
clear ==
    /\ small_data_allocated' = [i \in Slots |-> FALSE]
    /\ inner_cont' = {}
    /\ UNCHANGED small_data

\* the plain vvl::unordered_map: insert keeps the stored pair of a key it holds
PlainContains(key) == \E e \in plain : e.first = key
PlainInsertSecond(value) == ~PlainContains(value.first)
PlainEraseCount(key) == Cardinality({e \in plain : e.first = key})

\* no pair returned by insert is held
NoInsert == [index |-> N, second |-> FALSE]

\* a slot that no insert has assigned
NoPair == [first |-> 0, second |-> "x"]

\* the it of an iterator that begin() made and operator++ has not assigned
Singular == 0

\* no iterator is held
NoIterator == [index |-> 0 - 1, it |-> Singular]

\* no reference returned by operator[] is held
NoSubscript == [second |-> "none", added |-> FALSE, over |-> NoPair]

\* T(): the value-initialized mapped value
T_default == "x"

\* the element of inner_cont with the key
InnerFind(key) == CHOOSE e \in inner_cont : e.first = key

\* the T stored with a key
mapped(key) ==
    IF MatchingSlots(key) # {}
    THEN small_data[FirstSlot(MatchingSlots(key))].second
    ELSE InnerFind(key).second

\* operator[] that does not look for the key in inner_cont
subscript_inline_only(key) ==
    IF MatchingSlots(key) # {}
    THEN UNCHANGED <<small_data_allocated, small_data, inner_cont>>
    ELSE IF FreeSlots # {}
         THEN LET i == FirstSlot(FreeSlots)
              IN  /\ small_data_allocated' = [small_data_allocated EXCEPT ![i] = TRUE]
                  /\ small_data' = [small_data EXCEPT ![i] =
                                        [first |-> key, second |-> "x"]]
                  /\ UNCHANGED inner_cont
         ELSE /\ inner_cont' = inner_cont \cup {[first |-> key, second |-> "x"]}
              /\ UNCHANGED <<small_data_allocated, small_data>>

\* operator[] that takes a free slot for the key and leaves the slot's T as it was
subscript_keeps_stale(key) ==
    IF MatchingSlots(key) # {} \/ InnerFinds(key)
    THEN UNCHANGED <<small_data_allocated, small_data, inner_cont>>
    ELSE IF FreeSlots # {}
         THEN LET i == FirstSlot(FreeSlots)
              IN  /\ small_data_allocated' = [small_data_allocated EXCEPT ![i] = TRUE]
                  /\ small_data' = [small_data EXCEPT ![i].first = key]
                  /\ UNCHANGED inner_cont
         ELSE /\ inner_cont' = inner_cont \cup {[first |-> key, second |-> T_default]}
              /\ UNCHANGED <<small_data_allocated, small_data>>

\* small_unordered_map::operator[], its effect: nothing when the key is stored, else
\* {key, T()} assigned to the first free inline slot, else inner_cont[key]
subscript(key) ==
    IF MatchingSlots(key) # {} \/ InnerFinds(key)
    THEN UNCHANGED <<small_data_allocated, small_data, inner_cont>>
    ELSE IF FreeSlots # {}
         THEN LET i == FirstSlot(FreeSlots)
              IN  /\ small_data_allocated' = [small_data_allocated EXCEPT ![i] = TRUE]
                  /\ small_data' = [small_data EXCEPT ![i] =
                                        [first |-> key, second |-> T_default]]
                  /\ UNCHANGED inner_cont
         ELSE /\ inner_cont' = inner_cont \cup {[first |-> key, second |-> T_default]}
              /\ UNCHANGED <<small_data_allocated, small_data>>

\* small_unordered_map::operator[], the T it returns a reference to, read after the call
subscript_value(key) == mapped(key)'

Insert(value) ==
    /\ insert(value)
    /\ insert_ret' = [index |-> insert_index(value), second |-> insert_second(value)]
    /\ plain' = IF PlainInsertSecond(value) THEN plain \cup {value} ELSE plain
    /\ subscript_ret' = NoSubscript
    /\ UNCHANGED <<itVars, notSmallContainer>>

Subscript(key) ==
    /\ subscript(key)
    /\ subscript_ret' =
           [second |-> subscript_value(key),
            added |-> ~contains(key),
            over |-> IF ~contains(key) /\ FreeSlots # {}
                     THEN small_data[FirstSlot(FreeSlots)] ELSE NoPair]
    /\ insert_ret' = NoInsert
    /\ plain' = IF PlainContains(key) THEN plain
                ELSE plain \cup {[first |-> key, second |-> T_default]}
    /\ UNCHANGED <<itVars, notSmallContainer>>

EraseKey(key) ==
    /\ erase(key)
    /\ plain' = {e \in plain : e.first # key}
    /\ insert_ret' = NoInsert
    /\ subscript_ret' = NoSubscript
    /\ UNCHANGED <<itVars, notSmallContainer>>

Clear ==
    /\ clear
    /\ plain' = {}
    /\ insert_ret' = NoInsert
    /\ subscript_ret' = NoSubscript
    /\ UNCHANGED <<itVars, notSmallContainer>>

\* small_container::small_container: no slot allocated; a slot's value is not read
\* before insert assigns it
InitSmallContainer ==
    /\ small_data_allocated = [i \in Slots |-> FALSE]
    /\ small_data = [i \in Slots |-> NoPair]
    /\ inner_cont = {}
    /\ plain = {}
    /\ insert_ret = NoInsert
    /\ subscript_ret = NoSubscript
    /\ inner_order = <<>>
    /\ iter = NoIterator
    /\ visited = <<>>

NextSmallContainer ==
    \/ \E value \in value_type : Insert(value)
    \/ \E key \in Keys : Subscript(key)
    \/ \E key \in Keys : EraseKey(key)
    \/ Clear

----------------------------------------------------------------------------
(* small_container::iterator: the record of its members index and it; it is a      *)
(* position in inner_order, Len(inner_order) + 1 for inner_cont.end(). The loop    *)
(* runs on a container that insert and erase have filled: a slot that is free      *)
(* keeps the pair it held, and inner_cont holds keys that found every slot taken.  *)

\* the keys of the containers that are iterated
IterKeys == 1..(N + 2)

IterPairs == [first : IterKeys, second : {T_default}]

\* inner_cont.begin()
inner_begin == 1

\* inner_cont.end()
inner_end == Len(inner_order) + 1

\* iterator::operator++ that steps to the next slot, allocated or not
iterator_increment_no_skip(self) ==
    IF self.index < N
    THEN IF self.index + 1 < N
         THEN [self EXCEPT !.index = self.index + 1]
         ELSE [index |-> N, it |-> inner_begin]
    ELSE [self EXCEPT !.it = self.it + 1]

\* iterator::operator++
iterator_increment(self) ==
    IF self.index < N
    THEN LET later == {i \in Slots : i > self.index /\ small_data_allocated[i]}
         IN  IF later # {}
             THEN [self EXCEPT !.index = FirstSlot(later)]
             ELSE [index |-> N, it |-> inner_begin]
    ELSE [self EXCEPT !.it = self.it + 1]

\* iterator::operator==
iterator_equal(self, other) ==
    IF (self.index < N) # (other.index < N)
    THEN FALSE
    ELSE IF self.index < N
         THEN self.index = other.index
         ELSE self.it = other.it

\* iterator::operator*
iterator_deref(self) ==
    IF self.index < N THEN small_data[self.index] ELSE inner_order[self.it]

\* small_container::begin
container_begin ==
    LET it0 == [index |-> 0, it |-> Singular]
    IN  IF small_data_allocated[0] THEN it0 ELSE iterator_increment(it0)

\* small_container::end
container_end == [index |-> N, it |-> inner_end]

\* it = begin()
Begin ==
    /\ iter = NoIterator
    /\ iter' = container_begin
    /\ UNCHANGED <<small_data_allocated, small_data, inner_cont, plain, insert_ret,
                   subscript_ret, inner_order, visited>>
    /\ UNCHANGED notSmallContainer

\* it != end(), the loop's body reads *it, then ++it
Increment ==
    /\ iter # NoIterator
    /\ ~iterator_equal(iter, container_end)
    /\ visited' = Append(visited, iterator_deref(iter))
    /\ iter' = iterator_increment(iter)
    /\ UNCHANGED <<small_data_allocated, small_data, inner_cont, plain, insert_ret,
                   subscript_ret, inner_order>>
    /\ UNCHANGED notSmallContainer

\* the orders an unordered container may give its elements
Orders(S) ==
    {order \in [1..Cardinality(S) -> S] :
        \A a, b \in 1..Cardinality(S) : order[a] = order[b] => a = b}

\* a container as insert and erase leave it: the slots hold distinct keys, taken or
\* freed, and inner_cont holds other keys, no more than the keys that can find all
\* N slots taken; or the container as constructed
InitIterated ==
    /\ \/ /\ small_data \in {d \in [Slots -> IterPairs] :
                              \A i, j \in Slots : d[i].first = d[j].first => i = j}
          /\ small_data_allocated \in [Slots -> BOOLEAN]
          /\ inner_cont \in SUBSET {e \in IterPairs :
                                     \A i \in Slots : small_data[i].first # e.first}
       \/ /\ small_data = [i \in Slots |-> NoPair]
          /\ small_data_allocated = [i \in Slots |-> FALSE]
          /\ inner_cont = {}
    /\ inner_order \in Orders(inner_cont)
    /\ plain = inner_cont \cup {small_data[i] : i \in {j \in Slots : small_data_allocated[j]}}
    /\ insert_ret = NoInsert
    /\ subscript_ret = NoSubscript
    /\ iter = NoIterator
    /\ visited = <<>>

NextIterate == Begin \/ Increment

----------------------------------------------------------------------------
(* small_vector<T, N>: an object is the record of its members. store holds the      *)
(* objects constructed in the working store, in order; large_store_ is the number   *)
(* of BackingStore elements the unique_ptr owns, nullptr when it owns none;         *)
(* allocations counts the new BackingStore[] of the operation in progress.          *)
(* T is a type whose moved-from state is its value-initialized state.               *)

Vectors == {"a", "b"}

kSmallCapacity == N

\* the largest size and capacity the runs ask for
MaxSize == N + 1
MaxCapacity == N + 2

nullptr == 0

\* value_type(), which is also what a moved-from element holds
value_type_default == 0

Values == {1}

\* small_vector::ComputeWorkingStore
ComputeWorkingStore(r) ==
    IF r.large_store_ # nullptr THEN "large_store_" ELSE "small_store_"

\* small_vector::UpdateWorkingStore
UpdateWorkingStore(r) == [r EXCEPT !.working_store_ = ComputeWorkingStore(r)]

\* small_vector::small_vector()
small_vector ==
    [size_ |-> 0, capacity_ |-> N, large_store_ |-> nullptr,
     working_store_ |-> "small_store_", store |-> << >>, allocations |-> 0]

\* reserve that takes a new store as soon as the request reaches the capacity
small_vector_reserve_eager(r, new_cap) ==
    IF new_cap >= r.capacity_
    THEN UpdateWorkingStore([r EXCEPT !.large_store_ = new_cap,
                                      !.capacity_ = new_cap,
                                      !.allocations = @ + 1])
    ELSE UpdateWorkingStore(r)

\* small_vector::reserve
small_vector_reserve(r, new_cap) ==
    IF new_cap > r.capacity_
    THEN UpdateWorkingStore([r EXCEPT !.large_store_ = new_cap,
                                      !.capacity_ = new_cap,
                                      !.allocations = @ + 1])
    ELSE UpdateWorkingStore(r)

\* emplace_back that doubles the capacity when the store is full
small_vector_emplace_back_doubling(r, value) ==
    LET r1 == small_vector_reserve(r, IF r.size_ = r.capacity_ THEN 2 * r.size_
                                      ELSE r.size_ + 1)
    IN  [r1 EXCEPT !.store = Append(@, value), !.size_ = @ + 1]

\* small_vector::emplace_back
small_vector_emplace_back(r, value) ==
    LET r1 == small_vector_reserve(r, r.size_ + 1)
    IN  [r1 EXCEPT !.store = Append(@, value), !.size_ = @ + 1]

\* small_vector::PushBackFrom(const Container &), as it leaves this
PushBackFrom(r, from) ==
    LET r1 == small_vector_reserve(r, r.size_ + from.size_)
    IN  [r1 EXCEPT !.store = @ \o from.store, !.size_ = r.size_ + from.size_]

\* small_vector::PushBackFrom(Container &&), as it leaves from: every element moved from
PushBackFrom_from(from) ==
    [from EXCEPT !.store = [i \in 1..from.size_ |-> value_type_default]]

\* clear that gives the large store back
small_vector_clear_releases(r) ==
    UpdateWorkingStore([r EXCEPT !.store = << >>, !.size_ = 0,
                                 !.large_store_ = nullptr, !.capacity_ = kSmallCapacity])

\* small_vector::clear
small_vector_clear(r) == [r EXCEPT !.store = << >>, !.size_ = 0]

\* small_vector::Resize
Resize(r, new_size, value) ==
    IF new_size < r.size_
    THEN [r EXCEPT !.store = SubSeq(@, 1, new_size), !.size_ = new_size]
    ELSE IF new_size > r.size_
    THEN LET r1 == small_vector_reserve(r, new_size)
         IN  [r1 EXCEPT !.store = @ \o [i \in 1..(new_size - r.size_) |-> value],
                        !.size_ = new_size]
    ELSE r

\* small_vector::resize(count)
small_vector_resize(r, cnt) == Resize(r, cnt, value_type_default)

\* shrink_to_fit that sets the capacity to the size, without the floor of N
shrink_to_fit_to_size(r) ==
    IF r.size_ = 0
    THEN UpdateWorkingStore([r EXCEPT !.capacity_ = kSmallCapacity,
                                      !.large_store_ = nullptr])
    ELSE IF r.capacity_ > kSmallCapacity /\ r.capacity_ > r.size_
    THEN UpdateWorkingStore([r EXCEPT !.large_store_ =
                                          IF r.size_ < kSmallCapacity THEN nullptr ELSE r.size_,
                                      !.capacity_ = r.size_])
    ELSE r

\* small_vector::shrink_to_fit
shrink_to_fit(r) ==
    IF r.size_ = 0
    THEN UpdateWorkingStore([r EXCEPT !.capacity_ = kSmallCapacity,
                                      !.large_store_ = nullptr])
    ELSE IF r.capacity_ > kSmallCapacity /\ r.capacity_ > r.size_
    THEN IF r.size_ < kSmallCapacity
         THEN UpdateWorkingStore([r EXCEPT !.large_store_ = nullptr,
                                           !.capacity_ = kSmallCapacity])
         ELSE UpdateWorkingStore([r EXCEPT !.large_store_ = r.size_,
                                           !.capacity_ = r.size_,
                                           !.allocations = @ + 1])
    ELSE r

\* shrink_to_fit, the elements in the store it has moved to: the loop runs
\* dest[i] = std::move(source[i]) on a dest[i] where no object is constructed, and a
\* move assignment reads the object it assigns to, so what dest[i] holds afterwards
\* is any value of T (a run that faults there has no state afterwards)
shrink_to_fit_relocated(r) ==
    IF r.size_ # 0 /\ r.capacity_ > kSmallCapacity /\ r.capacity_ > r.size_
    THEN [1..r.size_ -> Values \cup {value_type_default}]
    ELSE {r.store}

\* small_vector::MoveLargeStore, as it leaves this
MoveLargeStore(r, other) ==
    UpdateWorkingStore([r EXCEPT !.large_store_ = other.large_store_,
                                 !.capacity_ = other.capacity_,
                                 !.size_ = other.size_,
                                 !.store = other.store])

\* MoveLargeStore that takes the store and leaves other's size as it was
MoveLargeStore_other_keeps_size(other) ==
    UpdateWorkingStore([other EXCEPT !.large_store_ = nullptr,
                                     !.capacity_ = kSmallCapacity])

\* small_vector::MoveLargeStore, as it leaves other
MoveLargeStore_other(other) ==
    UpdateWorkingStore([other EXCEPT !.large_store_ = nullptr,
                                     !.size_ = 0,
                                     !.capacity_ = kSmallCapacity,
                                     !.store = << >>])

\* small_vector::small_vector(const small_vector &)
small_vector_copy(other) == PushBackFrom(small_vector, other)

\* small_vector::small_vector(small_vector &&), as it leaves this
small_vector_move(other) ==
    IF other.large_store_ # nullptr
    THEN MoveLargeStore(small_vector, other)
    ELSE PushBackFrom(small_vector, other)

\* small_vector::small_vector(small_vector &&), as it leaves other: other.clear() last
small_vector_move_other(other) ==
    small_vector_clear(IF other.large_store_ # nullptr
                       THEN MoveLargeStore_other(other)
                       ELSE PushBackFrom_from(other))

\* small_vector::operator=(const small_vector &)
copy_assign(r, other) ==
    IF other.size_ > r.capacity_
    THEN PushBackFrom(small_vector_clear(r), other)
    ELSE [r EXCEPT !.store = other.store, !.size_ = other.size_]

\* small_vector::operator=(small_vector &&), as it leaves this
move_assign(r, other) ==
    IF other.large_store_ # nullptr
    THEN MoveLargeStore(small_vector_clear(r), other)
    ELSE IF other.size_ > r.capacity_
    THEN PushBackFrom(small_vector_clear(r), other)
    ELSE [r EXCEPT !.store = other.store, !.size_ = other.size_]

\* a move assignment that empties other as the move constructor does
move_assign_other_clears(other) ==
    small_vector_clear(IF other.large_store_ # nullptr
                       THEN MoveLargeStore_other(other)
                       ELSE PushBackFrom_from(other))

\* small_vector::operator=(small_vector &&), as it leaves other
move_assign_other(other) ==
    IF other.large_store_ # nullptr
    THEN MoveLargeStore_other(other)
    ELSE PushBackFrom_from(other)

\* the object as an operation finds it: no new BackingStore[] made yet
Entered(v) == [vec[v] EXCEPT !.allocations = 0]

LastOp(o, v) == [op |-> o, v |-> v]

\* the operations of one object
EmplaceBack(v, value) ==
    /\ ~assert_failed
    /\ UNCHANGED assert_failed
    /\ vec[v].size_ < MaxSize
    /\ vec' = [vec EXCEPT ![v] = small_vector_emplace_back(Entered(v), value)]
    /\ last_op' = LastOp("emplace_back", v)
    /\ UNCHANGED pushed_only
    /\ UNCHANGED notSmallVector

\* the pushes of a vector that grows by emplace_back only
MaxPushes == N + 3

PushValues == {1, 2}

Push(v, value) ==
    /\ ~assert_failed
    /\ UNCHANGED assert_failed
    /\ vec[v].size_ < MaxPushes
    /\ vec' = [vec EXCEPT ![v] = small_vector_emplace_back(Entered(v), value)]
    /\ last_op' = LastOp("emplace_back", v)
    /\ UNCHANGED pushed_only
    /\ UNCHANGED notSmallVector

NextPush == \E v \in Vectors, value \in PushValues : Push(v, value)

Reserve(v, new_cap) ==
    /\ ~assert_failed
    /\ UNCHANGED assert_failed
    /\ vec' = [vec EXCEPT ![v] = small_vector_reserve(Entered(v), new_cap)]
    /\ last_op' = LastOp("reserve", v)
    /\ pushed_only' = [pushed_only EXCEPT ![v] = FALSE]
    /\ UNCHANGED notSmallVector

ClearVector(v) ==
    /\ ~assert_failed
    /\ UNCHANGED assert_failed
    /\ vec' = [vec EXCEPT ![v] = small_vector_clear(Entered(v))]
    /\ last_op' = LastOp("clear", v)
    /\ pushed_only' = [pushed_only EXCEPT ![v] = FALSE]
    /\ UNCHANGED notSmallVector

ResizeVector(v, cnt) ==
    /\ ~assert_failed
    /\ UNCHANGED assert_failed
    /\ vec' = [vec EXCEPT ![v] = small_vector_resize(Entered(v), cnt)]
    /\ last_op' = LastOp("resize", v)
    /\ pushed_only' = [pushed_only EXCEPT ![v] = FALSE]
    /\ UNCHANGED notSmallVector

ShrinkToFit(v) ==
    /\ ~assert_failed
    /\ UNCHANGED assert_failed
    /\ \E relocated \in shrink_to_fit_relocated(Entered(v)) :
           vec' = [vec EXCEPT ![v] = [shrink_to_fit(Entered(v)) EXCEPT !.store = relocated]]
    /\ last_op' = LastOp("shrink_to_fit", v)
    /\ pushed_only' = [pushed_only EXCEPT ![v] = FALSE]
    /\ UNCHANGED notSmallVector

\* v's lifetime ends and a default-constructed object takes its place
Construct(v) ==
    /\ ~assert_failed
    /\ UNCHANGED assert_failed
    /\ vec' = [vec EXCEPT ![v] = small_vector]
    /\ last_op' = LastOp("small_vector", v)
    /\ pushed_only' = [pushed_only EXCEPT ![v] = TRUE]
    /\ UNCHANGED notSmallVector

\* v's lifetime ends and a copy of other is constructed in its place
CopyConstruct(v, other) ==
    /\ v # other
    /\ ~assert_failed
    /\ UNCHANGED assert_failed
    /\ vec' = [vec EXCEPT ![v] = small_vector_copy(vec[other]), ![other] = Entered(other)]
    /\ last_op' = LastOp("copy_construct", v)
    /\ pushed_only' = [u \in Vectors |-> FALSE]
    /\ UNCHANGED notSmallVector

\* the asserts of small_vector::MoveLargeStore
MoveLargeStore_asserts(other) ==
    other.large_store_ # nullptr /\ other.capacity_ > kSmallCapacity

\* a build with asserts ends the process where MoveLargeStore's assert fails
AssertFails(other) ==
    /\ vec[other].large_store_ # nullptr
    /\ ~MoveLargeStore_asserts(vec[other])
    /\ assert_failed' = TRUE
    /\ UNCHANGED <<vec, pushed_only, last_op>>

\* v's lifetime ends and an object move-constructed from other takes its place
MoveConstruct(v, other) ==
    /\ v # other
    /\ ~assert_failed
    /\ \/ /\ vec' = [vec EXCEPT ![v] = small_vector_move(Entered(other)),
                                ![other] = small_vector_move_other(Entered(other))]
          /\ last_op' = LastOp("move_construct", v)
          /\ pushed_only' = [u \in Vectors |-> FALSE]
          /\ UNCHANGED assert_failed
       \/ AssertFails(other)
    /\ UNCHANGED notSmallVector

CopyAssign(v, other) ==
    /\ v # other
    /\ ~assert_failed
    /\ UNCHANGED assert_failed
    /\ vec' = [vec EXCEPT ![v] = copy_assign(Entered(v), vec[other]),
                          ![other] = Entered(other)]
    /\ last_op' = LastOp("copy_assign", v)
    /\ pushed_only' = [u \in Vectors |-> FALSE]
    /\ UNCHANGED notSmallVector

MoveAssign(v, other) ==
    /\ v # other
    /\ ~assert_failed
    /\ \/ /\ vec' = [vec EXCEPT ![v] = move_assign(Entered(v), Entered(other)),
                                ![other] = move_assign_other(Entered(other))]
          /\ last_op' = LastOp("move_assign", v)
          /\ pushed_only' = [u \in Vectors |-> FALSE]
          /\ UNCHANGED assert_failed
       \/ AssertFails(other)
    /\ UNCHANGED notSmallVector

InitSmallVector ==
    /\ vec = [v \in Vectors |-> small_vector]
    /\ pushed_only = [v \in Vectors |-> TRUE]
    /\ last_op = LastOp("small_vector", "a")
    /\ assert_failed = FALSE

NextSmallVector ==
    \/ \E v \in Vectors, value \in Values : EmplaceBack(v, value)
    \/ \E v \in Vectors, new_cap \in N..MaxCapacity : Reserve(v, new_cap)
    \/ \E v \in Vectors : ClearVector(v)
    \/ \E v \in Vectors, cnt \in 0..MaxSize : ResizeVector(v, cnt)
    \/ \E v \in Vectors : ShrinkToFit(v)
    \/ \E v \in Vectors : Construct(v)
    \/ \E v \in Vectors, other \in Vectors : CopyConstruct(v, other)
    \/ \E v \in Vectors, other \in Vectors : MoveConstruct(v, other)
    \/ \E v \in Vectors, other \in Vectors : CopyAssign(v, other)
    \/ \E v \in Vectors, other \in Vectors : MoveAssign(v, other)

----------------------------------------------------------------------------
(* TlsGuard<T>: payload_ is thread_local, one optional<T> per thread. A call's      *)
(* phases construct and destroy one guard each, on the thread that makes the call.  *)

nullopt == "nullopt"

\* the values a validate phase constructs the payload with
Payloads == {"p", "q"}

\* bool(payload_): state INIT of the payload, state RESET when it does not hold
HasValue(t) == payload_[t] # nullopt

NoGuard == [alive |-> FALSE, skip_ |-> "nullptr", persist_ |-> FALSE]

Guard(s, p) == [alive |-> TRUE, skip_ |-> s, persist_ |-> p]

\* a build with asserts ends the process where an assert of TlsGuard fails
TlsAssertFails ==
    /\ tls_assert_failed' = TRUE
    /\ UNCHANGED <<payload_, guard, skip, tls_pc>>

\* TlsGuard::TlsGuard(bool *skip, Args &&...) in a PreCallValidate: assert(!payload_),
\* then payload_.emplace(...)
TlsGuard_validate(t, args) ==
    /\ ~tls_assert_failed
    /\ tls_pc[t] = "idle"
    /\ \/ /\ payload_' = [payload_ EXCEPT ![t] = args]
          /\ guard' = [guard EXCEPT ![t] = Guard("skip", FALSE)]
          /\ skip' = [skip EXCEPT ![t] = FALSE]
          /\ tls_pc' = [tls_pc EXCEPT ![t] = "PreCallValidate"]
          /\ UNCHANGED tls_assert_failed
       \/ /\ HasValue(t)
          /\ TlsAssertFails
    /\ UNCHANGED notTlsGuard

\* the component's validation finds an error and sets skip
SetSkip(t) ==
    /\ ~tls_assert_failed
    /\ tls_pc[t] = "PreCallValidate"
    /\ ~skip[t]
    /\ skip' = [skip EXCEPT ![t] = TRUE]
    /\ UNCHANGED <<payload_, guard, tls_pc, tls_assert_failed>>
    /\ UNCHANGED notTlsGuard

\* TlsGuard::TlsGuard(const TlsGuardPersist &) in a PreCallRecord that a PostCallRecord
\* follows: assert(payload_)
TlsGuard_persist(t) ==
    /\ ~tls_assert_failed
    /\ tls_pc[t] = "validated"
    /\ \/ /\ guard' = [guard EXCEPT ![t] = Guard("nullptr", TRUE)]
          /\ tls_pc' = [tls_pc EXCEPT ![t] = "PreCallRecord"]
          /\ UNCHANGED <<payload_, skip, tls_assert_failed>>
       \/ /\ ~HasValue(t)
          /\ TlsAssertFails
    /\ UNCHANGED notTlsGuard

\* a last record phase whose guard persists
TlsGuard_terminal_persists(t) ==
    /\ ~tls_assert_failed
    /\ tls_pc[t] \in {"validated", "recorded"}
    /\ \/ /\ guard' = [guard EXCEPT ![t] = Guard("nullptr", TRUE)]
          /\ tls_pc' = [tls_pc EXCEPT ![t] = "LastRecord"]
          /\ UNCHANGED <<payload_, skip, tls_assert_failed>>
       \/ /\ ~HasValue(t)
          /\ TlsAssertFails
    /\ UNCHANGED notTlsGuard

\* TlsGuard::TlsGuard() in the last record phase of the call: assert(payload_)
TlsGuard_terminal(t) ==
    /\ ~tls_assert_failed
    /\ tls_pc[t] \in {"validated", "recorded"}
    /\ \/ /\ guard' = [guard EXCEPT ![t] = Guard("nullptr", FALSE)]
          /\ tls_pc' = [tls_pc EXCEPT ![t] = "LastRecord"]
          /\ UNCHANGED <<payload_, skip, tls_assert_failed>>
       \/ /\ ~HasValue(t)
          /\ TlsAssertFails
    /\ UNCHANGED notTlsGuard

\* another component of the chain has vetoed the call: no record phase runs
Vetoed(t) ==
    /\ ~tls_assert_failed
    /\ tls_pc[t] = "validated"
    /\ tls_pc' = [tls_pc EXCEPT ![t] = "idle"]
    /\ UNCHANGED <<payload_, guard, skip, tls_assert_failed>>
    /\ UNCHANGED notTlsGuard

\* the phase of the call that follows the destruction of the guard of this one
AfterPhase(t) ==
    IF tls_pc[t] = "PreCallValidate" THEN (IF skip[t] THEN "idle" ELSE "validated")
    ELSE IF tls_pc[t] = "PreCallRecord" THEN "recorded"
    ELSE "idle"

\* ~TlsGuard that resets the payload whenever persist_ is not set
TlsGuard_dtor_ignores_skip(t) ==
    /\ ~tls_assert_failed
    /\ guard[t].alive
    /\ \/ /\ payload_' = [payload_ EXCEPT ![t] = IF ~guard[t].persist_ THEN nullopt ELSE @]
          /\ guard' = [guard EXCEPT ![t] = NoGuard]
          /\ tls_pc' = [tls_pc EXCEPT ![t] = AfterPhase(t)]
          /\ UNCHANGED <<skip, tls_assert_failed>>
       \/ /\ ~HasValue(t)
          /\ TlsAssertFails
    /\ UNCHANGED notTlsGuard

\* TlsGuard::~TlsGuard: assert(payload_);
\* if (!persist_ && (!skip_ || *skip_)) payload_.reset()
TlsGuard_dtor(t) ==
    /\ ~tls_assert_failed
    /\ guard[t].alive
    /\ \/ /\ payload_' = [payload_ EXCEPT ![t] =
                 IF ~guard[t].persist_ /\ (guard[t].skip_ = "nullptr" \/ skip[t])
                 THEN nullopt ELSE @]
          /\ guard' = [guard EXCEPT ![t] = NoGuard]
          /\ tls_pc' = [tls_pc EXCEPT ![t] = AfterPhase(t)]
          /\ UNCHANGED <<skip, tls_assert_failed>>
       \/ /\ ~HasValue(t)
          /\ TlsAssertFails
    /\ UNCHANGED notTlsGuard

InitTlsGuard ==
    /\ payload_ = [t \in AllThreads |-> nullopt]
    /\ guard = [t \in AllThreads |-> NoGuard]
    /\ skip = [t \in AllThreads |-> FALSE]
    /\ tls_pc = [t \in AllThreads |-> "idle"]
    /\ tls_assert_failed = FALSE

NextTlsGuard ==
    \/ \E t \in AllThreads, args \in Payloads : TlsGuard_validate(t, args)
    \/ \E t \in AllThreads : SetSkip(t)
    \/ \E t \in AllThreads : TlsGuard_persist(t)
    \/ \E t \in AllThreads : TlsGuard_terminal(t)
    \/ \E t \in AllThreads : Vetoed(t)
    \/ \E t \in AllThreads : TlsGuard_dtor(t)

----------------------------------------------------------------------------
(* vvl::dispatch::Device: the chain of validation objects and the dispatch of an     *)
(* intercepted call through it.                                                      *)

\* enum LayerObjectTypeId, in its order: the priority order of the chain
LayerObjectTypeId ==
    << "LayerObjectTypeThreading", "LayerObjectTypeParameterValidation",
       "LayerObjectTypeObjectTracker", "LayerObjectTypeCoreValidation",
       "LayerObjectTypeBestPractices", "LayerObjectTypeGpuAssisted",
       "LayerObjectTypeSyncValidation" >>

\* the components of the runs, by their position in LayerObjectTypeId
Components == 1..NumComponents

EntryPoints == {"vkCreateBuffer", "vkDestroyBuffer"}

\* which entry points a component overrides: every component all of them, or the
\* components in turn one and the other
ImplementsTables ==
    { [c \in Components |-> EntryPoints],
      [c \in Components |-> IF c % 2 = 1 THEN {"vkCreateBuffer"} ELSE EntryPoints],
      [c \in Components |-> IF c % 2 = 1 THEN EntryPoints ELSE {"vkDestroyBuffer"}] }

RECURSIVE SelectInOrder(_, _)
\* the elements of the sequence chain that are in the set S, in the order of chain
SelectInOrder(chain, S) ==
    IF chain = << >> THEN << >>
    ELSE IF Head(chain) \in S
         THEN <<Head(chain)>> \o SelectInOrder(Tail(chain), S)
         ELSE SelectInOrder(Tail(chain), S)

PriorityOrder == [i \in 1..NumComponents |-> i]

\* the components of a chain that override entry point e, in the order of the chain
ImplementedBy(chain, e) ==
    SelectInOrder(chain, {c \in Components : e \in implements[c]})

Range(f) == {f[i] : i \in DOMAIN f}

NoDispatch == [entry |-> "none", phase |-> "none", i |-> 0, skip |-> FALSE]

Event(p, c, v) == [phase |-> p, vo |-> c, veto |-> v]

chassis == 0

\* Device::InitValidationObjects: the enabled components, in priority order
InitValidationObjects ==
    /\ scope_state = "Constructing"
    /\ object_dispatch' = SelectInOrder(PriorityOrder, settings)
    /\ scope_state' = "InitObjectDispatchVectors"
    /\ UNCHANGED <<settings, implements, aborted_object_dispatch, intercept_vectors,
                   initialized, call, dispatch_trace>>
    /\ UNCHANGED notDispatch

\* InitObjectDispatchVectors that lists every component of the chain for every entry
\* point
InitObjectDispatchVectors_whole_chain ==
    /\ scope_state = "InitObjectDispatchVectors"
    /\ intercept_vectors' = [e \in EntryPoints |-> object_dispatch]
    /\ scope_state' = "InitComponents"
    /\ UNCHANGED <<settings, implements, object_dispatch, aborted_object_dispatch,
                   initialized, call, dispatch_trace>>
    /\ UNCHANGED notDispatch

\* Device::InitObjectDispatchVectors: per entry point, the components that override it
InitObjectDispatchVectors ==
    /\ scope_state = "InitObjectDispatchVectors"
    /\ intercept_vectors' = [e \in EntryPoints |-> ImplementedBy(object_dispatch, e)]
    /\ scope_state' = "InitComponents"
    /\ UNCHANGED <<settings, implements, object_dispatch, aborted_object_dispatch,
                   initialized, call, dispatch_trace>>
    /\ UNCHANGED notDispatch

\* ReleaseValidationObject that leaves the component in the fast-dispatch table
ReleaseValidationObject_keeps_intercept(c) ==
    /\ object_dispatch' = SelectInOrder(object_dispatch, Components \ {c})
    /\ aborted_object_dispatch' = Append(aborted_object_dispatch, c)
    /\ UNCHANGED intercept_vectors

\* Device::ReleaseValidationObject: the component leaves the active chain and the
\* fast-dispatch table and joins the aborted chain
ReleaseValidationObject(c) ==
    /\ object_dispatch' = SelectInOrder(object_dispatch, Components \ {c})
    /\ aborted_object_dispatch' = Append(aborted_object_dispatch, c)
    /\ intercept_vectors' =
           [e \in EntryPoints |-> SelectInOrder(intercept_vectors[e], Components \ {c})]

\* the initialization of one component of the chain: it succeeds, or it fails and the
\* component is released
ComponentInit(c, ok) ==
    /\ scope_state = "InitComponents"
    /\ c \in settings \ initialized
    /\ \A d \in settings \ initialized : c <= d
    /\ initialized' = initialized \cup {c}
    /\ IF ok
       THEN UNCHANGED <<object_dispatch, aborted_object_dispatch, intercept_vectors>>
       ELSE ReleaseValidationObject(c)
    /\ UNCHANGED <<scope_state, settings, implements, call, dispatch_trace>>
    /\ UNCHANGED notDispatch

\* construction has finished: the scope is Active
Activate ==
    /\ scope_state = "InitComponents"
    /\ initialized = settings
    /\ scope_state' = "Active"
    /\ UNCHANGED <<settings, implements, object_dispatch, aborted_object_dispatch,
                   intercept_vectors, initialized, call, dispatch_trace>>
    /\ UNCHANGED notDispatch

\* the components the call in progress goes through
CallList == intercept_vectors[call.entry]

Trace(p, c, v) == dispatch_trace' = Append(dispatch_trace, Event(p, c, v))

DispatchFrame ==
    /\ UNCHANGED <<scope_state, settings, implements, object_dispatch,
                   aborted_object_dispatch, intercept_vectors, initialized>>
    /\ UNCHANGED notDispatch

\* the client calls entry point e of the Active scope
DispatchCall(e) ==
    /\ scope_state = "Active"
    /\ call.phase \in {"none", "returned"}
    /\ call' = [entry |-> e, phase |-> "PreCallValidate", i |-> 1, skip |-> FALSE]
    /\ dispatch_trace' = << >>
    /\ DispatchFrame

\* pre-call-validate that returns at the first veto
PreCallValidate_short_circuit(veto) ==
    /\ call.phase = "PreCallValidate"
    /\ call.i <= Len(CallList)
    /\ Trace("PreCallValidate", CallList[call.i], veto)
    /\ call' = [call EXCEPT !.skip = @ \/ veto,
                            !.i = IF veto THEN Len(CallList) + 1 ELSE @ + 1]
    /\ DispatchFrame

\* pre-call-validate of the next component of the entry point: it may veto
PreCallValidate(veto) ==
    /\ call.phase = "PreCallValidate"
    /\ call.i <= Len(CallList)
    /\ Trace("PreCallValidate", CallList[call.i], veto)
    /\ call' = [call EXCEPT !.skip = @ \/ veto, !.i = @ + 1]
    /\ DispatchFrame

\* no component has vetoed: the handle arguments are unwrapped
DispatchUnwrap ==
    /\ call.phase = "PreCallValidate"
    /\ call.i > Len(CallList)
    /\ ~call.skip
    /\ Trace("Unwrap", chassis, FALSE)
    /\ call' = [call EXCEPT !.phase = "PreCallRecord", !.i = 1]
    /\ DispatchFrame

\* pre-call-record that goes through the components last to first
PreCallRecord_reversed ==
    /\ call.phase = "PreCallRecord"
    /\ call.i <= Len(CallList)
    /\ Trace("PreCallRecord", CallList[Len(CallList) + 1 - call.i], FALSE)
    /\ call' = [call EXCEPT !.i = @ + 1]
    /\ DispatchFrame

\* pre-call-record of the next component of the entry point
PreCallRecord ==
    /\ call.phase = "PreCallRecord"
    /\ call.i <= Len(CallList)
    /\ Trace("PreCallRecord", CallList[call.i], FALSE)
    /\ call' = [call EXCEPT !.i = @ + 1]
    /\ DispatchFrame

\* the call is forwarded to the real implementation
DispatchForward ==
    /\ call.phase = "PreCallRecord"
    /\ call.i > Len(CallList)
    /\ Trace("Forward", chassis, FALSE)
    /\ call' = [call EXCEPT !.phase = "Forward"]
    /\ DispatchFrame

\* the handles the implementation has created are wrapped
DispatchWrapNew ==
    /\ call.phase = "Forward"
    /\ Trace("WrapNew", chassis, FALSE)
    /\ call' = [call EXCEPT !.phase = "PostCallRecord", !.i = 1]
    /\ DispatchFrame

\* post-call-record in which the component fails and is released
PostCallRecord_releases ==
    /\ call.phase = "PostCallRecord"
    /\ call.i <= Len(CallList)
    /\ Trace("PostCallRecord", CallList[call.i], FALSE)
    /\ call' = [call EXCEPT !.i = Len(CallList) + 1]
    /\ ReleaseValidationObject(CallList[call.i])
    /\ UNCHANGED <<scope_state, settings, implements, initialized>>
    /\ UNCHANGED notDispatch

\* post-call-record of the next component of the entry point
PostCallRecord ==
    /\ call.phase = "PostCallRecord"
    /\ call.i <= Len(CallList)
    /\ Trace("PostCallRecord", CallList[call.i], FALSE)
    /\ call' = [call EXCEPT !.i = @ + 1]
    /\ DispatchFrame

\* the call returns to the client: after post-call-record, or after pre-call-validate
\* when a component has vetoed
DispatchReturn ==
    /\ \/ call.phase = "PostCallRecord" /\ call.i > Len(CallList)
       \/ call.phase = "PreCallValidate" /\ call.i > Len(CallList) /\ call.skip
    /\ call' = [call EXCEPT !.phase = "returned"]
    /\ UNCHANGED dispatch_trace
    /\ DispatchFrame

InitDispatch ==
    /\ scope_state = "Constructing"
    /\ settings \in SUBSET Components
    /\ implements \in ImplementsTables
    /\ object_dispatch = << >>
    /\ aborted_object_dispatch = << >>
    /\ intercept_vectors = [e \in EntryPoints |-> << >>]
    /\ initialized = {}
    /\ call = NoDispatch
    /\ dispatch_trace = << >>

\* a scope with nothing enabled, for the runs of the other components
InitNoDispatch ==
    /\ scope_state = "Constructing"
    /\ settings = {}
    /\ implements = [c \in Components |-> EntryPoints]
    /\ object_dispatch = << >>
    /\ aborted_object_dispatch = << >>
    /\ intercept_vectors = [e \in EntryPoints |-> << >>]
    /\ initialized = {}
    /\ call = NoDispatch
    /\ dispatch_trace = << >>

NextDispatch ==
    \/ InitValidationObjects
    \/ InitObjectDispatchVectors
    \/ \E c \in Components, ok \in BOOLEAN : ComponentInit(c, ok)
    \/ Activate
    \/ \E e \in EntryPoints : DispatchCall(e)
    \/ \E veto \in BOOLEAN : PreCallValidate(veto)
    \/ DispatchUnwrap
    \/ PreCallRecord
    \/ DispatchForward
    \/ DispatchWrapNew
    \/ PostCallRecord
    \/ DispatchReturn

\* the handle the implementation creates for a call on the scope
DeviceHandles == {U64(0, 1)}

\* what a step on the identity map leaves alone in the handle wrapper
IdentityMapFrame ==
    UNCHANGED <<display_id_reverse_mapping, vvl_hash, threads, pc, arg, unique_id, caller,
                mwd_unique_id, display_ret, ret, max_wraps>>

\* HandleWrapper::WrapNew on a non-null handle, run from its first line to its last
WrapNewWhole(new_created_handle, who) ==
    /\ global_unique_id < global_unique_id_init + max_wraps
    /\ LET id == HashedUint64_hash(global_unique_id)
       IN  /\ global_unique_id' = global_unique_id + 1
           /\ unique_id_mapping' =
                  [k \in DOMAIN unique_id_mapping \cup {id} |->
                      IF k = id THEN new_created_handle ELSE unique_id_mapping[k]]
           /\ issued' = Append(issued, [id |-> id, real |-> new_created_handle, via |-> who])

\* a create call of the Active scope wraps the handle the implementation has created
ScopeWrapNew(h) ==
    /\ scope_state = "Active"
    /\ WrapNewWhole(h, "scope")
    /\ owned' = owned \cup {HashedUint64_hash(global_unique_id)}
    /\ IdentityMapFrame
    /\ UNCHANGED <<erased, teardown_order>>
    /\ UNCHANGED dpVars
    /\ UNCHANGED notScope

\* a destroy call of the Active scope erases the id of the object: HandleWrapper::Erase
ScopeErase(w) ==
    /\ scope_state = "Active"
    /\ w \in owned
    /\ unique_id_mapping' =
           [k \in DOMAIN unique_id_mapping \ {w} |-> unique_id_mapping[k]]
    /\ erased' = erased \cup {w}
    /\ owned' = owned \ {w}
    /\ IdentityMapFrame
    /\ UNCHANGED <<global_unique_id, issued, teardown_order>>
    /\ UNCHANGED dpVars
    /\ UNCHANGED notScope

\* another scope wraps a handle: the identity map is shared by every scope
OtherScopeWrapNew(h) ==
    /\ scope_state # "Constructing"
    /\ WrapNewWhole(h, "client")
    /\ IdentityMapFrame
    /\ UNCHANGED <<erased, teardown_order, owned>>
    /\ UNCHANGED dpVars
    /\ UNCHANGED notScope

\* the client destroys the scope: Active -> Destroying
DestroyDevice ==
    /\ scope_state = "Active"
    /\ call.phase \in {"none", "returned"}
    /\ scope_state' = "Destroying"
    /\ UNCHANGED <<settings, implements, object_dispatch, aborted_object_dispatch,
                   intercept_vectors, initialized, call, dispatch_trace>>
    /\ UNCHANGED <<hwVars, tdVars>>
    /\ UNCHANGED notScope

\* the components of the active chain only that are not torn down yet
ToTearDown_active_only ==
    Range(object_dispatch) \ Range(teardown_order)

\* the components of both chains that are not torn down yet
ToTearDown ==
    (Range(object_dispatch) \cup Range(aborted_object_dispatch)) \ Range(teardown_order)

\* teardown of the next component: the last in priority order, of both chains, that
\* is not torn down yet
ComponentTeardown ==
    /\ scope_state = "Destroying"
    /\ ToTearDown # {}
    /\ teardown_order' =
           Append(teardown_order, CHOOSE c \in ToTearDown : \A d \in ToTearDown : d <= c)
    /\ UNCHANGED owned
    /\ UNCHANGED <<hwVars, dpVars>>
    /\ UNCHANGED notScope

\* every component is torn down: the ids the scope owns are erased from the identity
\* map, Destroying -> Gone
FinishDestroy ==
    /\ scope_state = "Destroying"
    /\ ToTearDown = {}
    /\ unique_id_mapping' =
           [k \in DOMAIN unique_id_mapping \ owned |-> unique_id_mapping[k]]
    /\ erased' = erased \cup owned
    /\ scope_state' = "Gone"
    /\ IdentityMapFrame
    /\ UNCHANGED <<global_unique_id, issued>>
    /\ UNCHANGED <<settings, implements, object_dispatch, aborted_object_dispatch,
                   intercept_vectors, initialized, call, dispatch_trace>>
    /\ UNCHANGED tdVars
    /\ UNCHANGED notScope

InitTeardown ==
    /\ teardown_order = << >>
    /\ owned = {}

NextScope ==
    \/ \E h \in DeviceHandles : ScopeWrapNew(h)
    \/ \E w \in WrappedInputs : ScopeErase(w)
    \/ \E h \in DeviceHandles : OtherScopeWrapNew(h)
    \/ DestroyDevice
    \/ ComponentTeardown
    \/ FinishDestroy

----------------------------------------------------------------------------
(* Device: the bookkeeping of deferred operations *)

DeferredOperations == {"op1", "op2"}

Pipelines == {"pipeline"}

\* vvl::concurrent_unordered_map: each operation on one key is atomic
MapFind(map, key) == IF key \in DOMAIN map THEN map[key] ELSE << >>

MapInsert(map, key, value) ==
    [k \in DOMAIN map \cup {key} |-> IF k = key THEN value ELSE map[k]]

\* a pop that hands the entry out and leaves it in the map
MapPop_keeps(map, key) == map

\* the map after pop(key): the entry is handed out and removed in one step
MapPop(map, key) == [k \in DOMAIN map \ {key} |-> map[k]]

NoPoll == [pc |-> "idle", operation |-> "op1", completion |-> << >>, check |-> << >>,
           pipelines |-> << >>, result |-> "none"]

\* a callback, and the operation it is registered for
Callback(id, op) == [id |-> id, operation |-> op]

Invocation(cb, op, handed) == [callback |-> cb, operation |-> op, handed |-> handed]

\* the implementation accepts the work of a call as deferred operation
AcceptDeferred(op) ==
    /\ operation_state[op] = "none"
    /\ operation_state' = [operation_state EXCEPT ![op] = "deferred"]
    /\ UNCHANGED <<deferred_operation_post_completion, deferred_operation_post_check,
                   deferred_operation_pipelines, next_callback, poll, invoked>>
    /\ UNCHANGED notDeferred

\* the implementation finishes the work
CompleteDeferred(op) ==
    /\ operation_state[op] = "deferred"
    /\ operation_state' = [operation_state EXCEPT ![op] = "complete"]
    /\ UNCHANGED <<deferred_operation_post_completion, deferred_operation_post_check,
                   deferred_operation_pipelines, next_callback, poll, invoked>>
    /\ UNCHANGED notDeferred

\* the issuing thread registers a completion callback for the accepted operation
RegisterCompletion(op) ==
    /\ operation_state[op] # "none"
    /\ next_callback <= MaxCallbacks
    /\ deferred_operation_post_completion' =
           MapInsert(deferred_operation_post_completion, op,
                     Append(MapFind(deferred_operation_post_completion, op),
                            Callback(next_callback, op)))
    /\ next_callback' = next_callback + 1
    /\ UNCHANGED <<deferred_operation_post_check, deferred_operation_pipelines,
                   operation_state, poll, invoked>>
    /\ UNCHANGED notDeferred

\* the issuing thread registers the list of objects the operation produces, before
\* the callbacks that inspect the list
RegisterPipelines(op, pipeline) ==
    /\ operation_state[op] # "none"
    /\ op \notin DOMAIN deferred_operation_pipelines
    /\ op \notin DOMAIN deferred_operation_post_check
    /\ deferred_operation_pipelines' =
           MapInsert(deferred_operation_pipelines, op, <<pipeline>>)
    /\ UNCHANGED <<deferred_operation_post_completion, deferred_operation_post_check,
                   operation_state, next_callback, poll, invoked>>
    /\ UNCHANGED notDeferred

\* the issuing thread registers a result-inspection callback
RegisterCheck(op) ==
    /\ operation_state[op] # "none"
    /\ next_callback <= MaxCallbacks
    /\ deferred_operation_post_check' =
           MapInsert(deferred_operation_post_check, op,
                     Append(MapFind(deferred_operation_post_check, op),
                            Callback(next_callback, op)))
    /\ next_callback' = next_callback + 1
    /\ UNCHANGED <<deferred_operation_post_completion, deferred_operation_pipelines,
                   operation_state, poll, invoked>>
    /\ UNCHANGED notDeferred

\* the client polls or waits: the call is forwarded, and the lists are drained only
\* when the implementation delivers the result
PollResult(op) ==
    /\ poll.pc = "idle"
    /\ operation_state[op] # "none"
    /\ poll' = IF operation_state[op] = "complete"
               THEN [NoPoll EXCEPT !.pc = "pop_completion", !.operation = op,
                                   !.result = "VK_SUCCESS"]
               ELSE [NoPoll EXCEPT !.operation = op, !.result = "VK_NOT_READY"]
    /\ UNCHANGED <<deferred_operation_post_completion, deferred_operation_post_check,
                   deferred_operation_pipelines, operation_state, next_callback, invoked>>
    /\ UNCHANGED notDeferred

PopCompletion ==
    /\ poll.pc = "pop_completion"
    /\ poll' = [poll EXCEPT !.pc = "invoke_completion",
                            !.completion =
                                MapFind(deferred_operation_post_completion, poll.operation)]
    /\ deferred_operation_post_completion' =
           MapPop(deferred_operation_post_completion, poll.operation)
    /\ UNCHANGED <<deferred_operation_post_check, deferred_operation_pipelines,
                   operation_state, next_callback, invoked>>
    /\ UNCHANGED notDeferred

InvokeCompletion ==
    /\ poll.pc = "invoke_completion"
    /\ IF poll.completion # << >>
       THEN /\ invoked' = Append(invoked, Invocation(Head(poll.completion), poll.operation, << >>))
            /\ poll' = [poll EXCEPT !.completion = Tail(poll.completion)]
       ELSE /\ poll' = [poll EXCEPT !.pc = "pop_check"]
            /\ UNCHANGED invoked
    /\ UNCHANGED <<deferred_operation_post_completion, deferred_operation_post_check,
                   deferred_operation_pipelines, operation_state, next_callback>>
    /\ UNCHANGED notDeferred

PopCheck ==
    /\ poll.pc = "pop_check"
    /\ poll' = [poll EXCEPT !.pc = IF poll.operation \in DOMAIN deferred_operation_post_check
                                   THEN "pop_pipelines" ELSE "return",
                            !.check = MapFind(deferred_operation_post_check, poll.operation)]
    /\ deferred_operation_post_check' = MapPop(deferred_operation_post_check, poll.operation)
    /\ UNCHANGED <<deferred_operation_post_completion, deferred_operation_pipelines,
                   operation_state, next_callback, invoked>>
    /\ UNCHANGED notDeferred

PopPipelines ==
    /\ poll.pc = "pop_pipelines"
    /\ poll' = [poll EXCEPT !.pc = "invoke_check",
                            !.pipelines = MapFind(deferred_operation_pipelines, poll.operation)]
    /\ deferred_operation_pipelines' = MapPop(deferred_operation_pipelines, poll.operation)
    /\ UNCHANGED <<deferred_operation_post_completion, deferred_operation_post_check,
                   operation_state, next_callback, invoked>>
    /\ UNCHANGED notDeferred

InvokeCheck ==
    /\ poll.pc = "invoke_check"
    /\ IF poll.check # << >>
       THEN /\ invoked' = Append(invoked, Invocation(Head(poll.check), poll.operation, poll.pipelines))
            /\ poll' = [poll EXCEPT !.check = Tail(poll.check)]
       ELSE /\ poll' = [poll EXCEPT !.pc = "return"]
            /\ UNCHANGED invoked
    /\ UNCHANGED <<deferred_operation_post_completion, deferred_operation_post_check,
                   deferred_operation_pipelines, operation_state, next_callback>>
    /\ UNCHANGED notDeferred

\* the result is handed to the client
PollReturn ==
    /\ poll.pc = "return"
    /\ poll' = [poll EXCEPT !.pc = "idle", !.pipelines = << >>]
    /\ UNCHANGED <<deferred_operation_post_completion, deferred_operation_post_check,
                   deferred_operation_pipelines, operation_state, next_callback, invoked>>
    /\ UNCHANGED notDeferred

InitDeferred ==
    /\ deferred_operation_post_completion = << >>
    /\ deferred_operation_post_check = << >>
    /\ deferred_operation_pipelines = << >>
    /\ operation_state = [op \in DeferredOperations |-> "none"]
    /\ next_callback = 1
    /\ poll = NoPoll
    /\ invoked = << >>

NextDeferred ==
    \/ \E op \in DeferredOperations : AcceptDeferred(op)
    \/ \E op \in DeferredOperations : CompleteDeferred(op)
    \/ \E op \in DeferredOperations : RegisterCompletion(op)
    \/ \E op \in DeferredOperations : \E pipeline \in Pipelines : RegisterPipelines(op, pipeline)
    \/ \E op \in DeferredOperations : RegisterCheck(op)
    \/ \E op \in DeferredOperations : PollResult(op)
    \/ PopCompletion
    \/ InvokeCompletion
    \/ PopCheck
    \/ PopPipelines
    \/ InvokeCheck
    \/ PollReturn

----------------------------------------------------------------------------
(* Specifications *)

InitHandleWrapper(T, wraps, H) ==
    /\ max_wraps = wraps
    /\ global_unique_id = global_unique_id_init
    /\ unique_id_mapping = << >>
    /\ display_id_reverse_mapping = << >>
    /\ vvl_hash \in H
    /\ threads = T
    /\ pc = [t \in AllThreads |-> "idle"]
    /\ arg = [t \in AllThreads |-> VK_NULL_HANDLE]
    /\ unique_id = [t \in AllThreads |-> 0]
    /\ caller = [t \in AllThreads |-> "client"]
    /\ mwd_unique_id = [t \in AllThreads |-> VK_NULL_HANDLE]
    /\ issued = << >>
    /\ erased = {}
    /\ display_ret = [h \in RealHandles |-> {}]
    /\ ret = [t \in AllThreads |-> NoCall]

NextHandleWrapper ==
    \/ \E t \in AllThreads, h \in RealHandles : WrapNew(t, h)
    \/ \E t \in AllThreads : WrapNew_insert(t)
    \/ \E t \in AllThreads : \E w \in WrappedInputs : Unwrap(t, w)
    \/ \E t \in AllThreads : \E w \in WrappedInputs : Find(t, w)
    \/ \E t \in AllThreads : \E w \in WrappedInputs : Erase(t, w)
    \/ \E t \in AllThreads, h \in RealHandles : MaybeWrapDisplay(t, h)
    \/ \E t \in AllThreads : MaybeWrapDisplay_wrap(t)
    \/ \E t \in AllThreads : MaybeWrapDisplay_assign(t)
    \/ \E t \in AllThreads : Resume(t)

\* one client thread, every operation of the handle wrapper
Init == InitHandleWrapper({"t1"}, MaxWraps, HashFunctions) /\ InitSmallContainer /\ InitSmallVector /\ InitTlsGuard /\ InitNoDispatch /\ InitTeardown /\ InitDeferred /\ InitNoHash

Next == NextHandleWrapper

Spec == Init /\ [][Next]_vars

\* two client threads calling WrapNew, Unwrap and MaybeWrapDisplay concurrently
InitConcurrent ==
    InitHandleWrapper(AllThreads, MaxConcurrentWraps, ConcurrentHashFunctions)
        /\ InitSmallContainer /\ InitSmallVector /\ InitTlsGuard /\ InitNoDispatch /\ InitTeardown /\ InitDeferred /\ InitNoHash

NextConcurrent ==
    \/ \E t \in AllThreads, h \in RealHandles : WrapNew(t, h)
    \/ \E t \in AllThreads : WrapNew_insert(t)
    \/ \E t \in AllThreads : \E w \in WrappedInputs : Unwrap(t, w)
    \/ \E t \in AllThreads, h \in RealHandles : MaybeWrapDisplay(t, h)
    \/ \E t \in AllThreads : MaybeWrapDisplay_wrap(t)
    \/ \E t \in AllThreads : MaybeWrapDisplay_assign(t)
    \/ \E t \in AllThreads : Resume(t)

SpecConcurrent == InitConcurrent /\ [][NextConcurrent]_vars

\* two client threads calling MaybeWrapDisplay and Erase concurrently, and Unwrap on
\* the ids of the reverse map
NextDisplay ==
    \/ \E t \in AllThreads, h \in RealHandles : MaybeWrapDisplay(t, h)
    \/ \E t \in AllThreads : MaybeWrapDisplay_wrap(t)
    \/ \E t \in AllThreads : WrapNew_insert(t)
    \/ \E t \in AllThreads : MaybeWrapDisplay_assign(t)
    \/ \E t \in AllThreads : \E real \in DOMAIN display_id_reverse_mapping :
           Unwrap(t, display_id_reverse_mapping[real])
    \/ \E t \in AllThreads : \E w \in WrappedInputs : Erase(t, w)
    \/ \E t \in AllThreads : Resume(t)

SpecDisplay == InitConcurrent /\ [][NextDisplay]_vars

\* a small_container under insert, erase and clear
InitContainer == InitHandleWrapper({}, 0, {StdHash}) /\ InitSmallContainer /\ InitSmallVector /\ InitTlsGuard /\ InitNoDispatch /\ InitTeardown /\ InitDeferred /\ InitNoHash

NextContainer == NextSmallContainer

SpecContainer == InitContainer /\ [][NextContainer]_vars

\* the loop over a small_container
InitIterate == InitHandleWrapper({}, 0, {StdHash}) /\ InitIterated /\ InitSmallVector /\ InitTlsGuard /\ InitNoDispatch /\ InitTeardown /\ InitDeferred /\ InitNoHash

SpecIterate == InitIterate /\ [][NextIterate]_vars

\* two small_vector objects under every operation of the class
InitVector == InitHandleWrapper({}, 0, {StdHash}) /\ InitSmallContainer /\ InitSmallVector /\ InitTlsGuard /\ InitNoDispatch /\ InitTeardown /\ InitDeferred /\ InitNoHash

NextVector == NextSmallVector

SpecVector == InitVector /\ [][NextVector]_vars

\* two small_vector objects that are only pushed to
SpecPush == InitVector /\ [][NextPush]_vars

\* two threads, each running calls whose phases use a TlsGuard<T>
InitGuard == InitHandleWrapper({}, 0, {StdHash}) /\ InitSmallContainer /\ InitSmallVector /\ InitTlsGuard /\ InitNoDispatch /\ InitTeardown /\ InitDeferred /\ InitNoHash

NextGuard == NextTlsGuard

SpecGuard == InitGuard /\ [][NextGuard]_vars

\* TlsGuard where the record phases of a call run whenever its validate phase did not
\* set skip: no call is vetoed by another component
NextGuardProtocol ==
    \/ \E t \in AllThreads, args \in Payloads : TlsGuard_validate(t, args)
    \/ \E t \in AllThreads : SetSkip(t)
    \/ \E t \in AllThreads : TlsGuard_persist(t)
    \/ \E t \in AllThreads : TlsGuard_terminal(t)
    \/ \E t \in AllThreads : TlsGuard_dtor(t)

SpecGuardProtocol == InitGuard /\ [][NextGuardProtocol]_vars

\* a Device scope: its construction, then calls dispatched through its chain
InitDevice ==
    InitHandleWrapper({}, MaxDeviceWraps, {StdHash}) /\ InitSmallContainer /\ InitSmallVector
        /\ InitTlsGuard /\ InitDispatch /\ InitTeardown /\ InitDeferred /\ InitNoHash

NextDevice == NextDispatch \/ NextScope

SpecDevice == InitDevice /\ [][NextDevice]_vars

----------------------------------------------------------------------------
(* Properties of the handle wrapper *)

\* the step in which thread t's call of o returns
Returns(t, o) == pc[t] # "returned" /\ pc'[t] = "returned" /\ ret'[t].op = o

IssuedByDisplay(h) ==
    {i \in DOMAIN issued : issued[i].real = h /\ issued[i].via = "MaybeWrapDisplay"}

\* C1: the ids WrapNew returns, in any interleaving with Unwrap, Find, Erase and
\* MaybeWrapDisplay, are pairwise distinct and none of them is 0
C1_IdsDistinctNonZero ==
    \A i \in DOMAIN issued :
        /\ issued[i].id # VK_NULL_HANDLE
        /\ \A j \in DOMAIN issued : i # j => issued[i].id # issued[j].id

\* C1 happens: the run has issued every id it may, with an Erase in between
C1_Witness ==
    /\ Len(issued) = max_wraps
    /\ max_wraps >= 2
    /\ erased # {}
    /\ threads = {"t1"}

\* C2: Unwrap returns null for null, the real handle WrapNew was given for an id that
\* is issued and not erased, and the invalid handle for every other id
C2_UnwrapContract ==
    \A t \in threads :
        ret[t].op = "Unwrap" =>
            ret[t].ret = IF ret[t].arg = VK_NULL_HANDLE THEN VK_NULL_HANDLE
                         ELSE IF Live(ret[t].arg) THEN IssuedReal(ret[t].arg)
                         ELSE InvalidHandle

\* C2 happens: Unwrap has returned the real handle of an id, after an Erase of another
C2_Witness ==
    \E t \in threads :
        /\ ret[t].op = "Unwrap"
        /\ Live(ret[t].arg)
        /\ ret[t].ret = IssuedReal(ret[t].arg)
        /\ ret[t].ret # InvalidHandle
        /\ erased # {}

\* C3: with two threads in WrapNew at once, the ids returned to both are distinct and
\* non-zero, each stays mapped to the real handle it was issued for, and an Unwrap
\* that runs next to the other thread's WrapNew returns the real handle of every id
\* issued before it
C3_ConcurrentWrapNew ==
    [][ /\ \A i \in DOMAIN issued' :
              /\ issued'[i].id # VK_NULL_HANDLE
              /\ \A j \in DOMAIN issued' : i # j => issued'[i].id # issued'[j].id
              /\ issued'[i].id \in DOMAIN unique_id_mapping'
              /\ unique_id_mapping'[issued'[i].id] = issued'[i].real
        /\ \A t \in threads :
              (Returns(t, "Unwrap") /\ ret'[t].arg \in IssuedIds)
                  => ret'[t].ret = IssuedReal(ret'[t].arg)
      ]_vars

\* C3 happens: both threads were between the counter and the insert at once, and
\* both have their id
C3_Witness ==
    /\ threads = AllThreads
    /\ Len(issued) >= 2
    /\ \A t \in threads : ret[t].op = "WrapNew" /\ ret[t].ret # VK_NULL_HANDLE
    /\ issued[1].id.lo > issued[2].id.lo

\* C4: successive MaybeWrapDisplay calls on one display return one id, and only the
\* first of them issues an id and adds an entry to the identity map
C4_DisplayIdempotent ==
    \A h \in RealHandles :
        /\ Cardinality(display_ret[h]) <= 1
        /\ Cardinality(IssuedByDisplay(h)) <= 1
        /\ display_ret[h] # {} =>
              /\ h \in DOMAIN display_id_reverse_mapping
              /\ display_ret[h] = {display_id_reverse_mapping[h]}

\* C4 happens: MaybeWrapDisplay has returned the id of a display it wrapped earlier,
\* with a client's WrapNew in between
C4_Witness ==
    \E t \in threads :
        /\ ret[t].op = "MaybeWrapDisplay"
        /\ ret[t].arg # VK_NULL_HANDLE
        /\ Len(issued) >= 2
        /\ issued[1] = [id |-> ret[t].ret, real |-> ret[t].arg, via |-> "MaybeWrapDisplay"]
        /\ issued[Len(issued)].via = "client"

\* C5: with two threads in MaybeWrapDisplay at once on one display, every call
\* returns the same id and one id is issued for the display
C5_DisplayStableConcurrent ==
    \A h \in RealHandles \ {VK_NULL_HANDLE} :
        \A a, b \in display_ret[h] \cup {issued[i].id : i \in IssuedByDisplay(h)} : a = b

\* C6: Erase of a mapped id returns its real handle and removes the entry; from then
\* on Find and Unwrap of the id, and another Erase of it, return the invalid handle
C6_EraseContract ==
    [][ /\ \A t \in threads : \A w \in WrappedInputs :
              Erase(t, w) =>
                  /\ w \notin DOMAIN unique_id_mapping'
                  /\ ret'[t].ret = IF Live(w) THEN IssuedReal(w) ELSE InvalidHandle
        /\ \A t \in threads :
              (ret'[t].op \in {"Find", "Unwrap"} /\ ret'[t].arg \in erased')
                  => ret'[t].ret = InvalidHandle
      ]_vars

\* C6 happens: Find of an id that was mapped and then erased
C6_Witness ==
    \E t \in threads :
        /\ ret[t].op = "Find"
        /\ ret[t].arg \in erased
        /\ ret[t].ret = InvalidHandle

\* C7: WrapNew(null) and MaybeWrapDisplay(null) return null, no id is ever issued for
\* null, and WrapNew(null) changes neither the counter nor the identity map
C7_NullWrap ==
    [][ /\ \A t \in threads :
              (WrapNew(t, VK_NULL_HANDLE)
                  \/ (MaybeWrapDisplay_wrap(t) /\ arg[t] = VK_NULL_HANDLE))
              => /\ global_unique_id' = global_unique_id
                 /\ unique_id_mapping' = unique_id_mapping
                 /\ pc'[t] # "WrapNew_insert"
        /\ \A t \in threads :
              (ret'[t].op \in {"WrapNew", "MaybeWrapDisplay"}
                  /\ ret'[t].arg = VK_NULL_HANDLE)
              => ret'[t].ret = VK_NULL_HANDLE
        /\ \A i \in DOMAIN issued' : issued'[i].real # VK_NULL_HANDLE
      ]_vars

\* C7 happens: MaybeWrapDisplay(null), and with it WrapNew(null), has returned
C7_Witness ==
    \E t \in threads :
        /\ ret[t].op = "MaybeWrapDisplay"
        /\ ret[t].arg = VK_NULL_HANDLE
        /\ ret[t].ret = VK_NULL_HANDLE
        /\ VK_NULL_HANDLE \in DOMAIN display_id_reverse_mapping
        /\ unique_id_mapping # << >>

\* C8: Unwrap, Find and Erase of an id that is not in the identity map return the
\* invalid handle and leave the map, the reverse map and the counter as they are;
\* Unwrap and Find leave them as they are for every argument
C8_UsageErrorFrame ==
    [][ \A t \in threads : \A w \in WrappedInputs :
            /\ (Unwrap(t, w) \/ Find(t, w) \/ Erase(t, w))
               /\ w \notin DOMAIN unique_id_mapping
               => /\ ret'[t].ret = InvalidHandle
                  /\ unique_id_mapping' = unique_id_mapping
                  /\ display_id_reverse_mapping' = display_id_reverse_mapping
                  /\ global_unique_id' = global_unique_id
            /\ (Unwrap(t, w) \/ Find(t, w))
               => /\ unique_id_mapping' = unique_id_mapping
                  /\ display_id_reverse_mapping' = display_id_reverse_mapping
                  /\ global_unique_id' = global_unique_id
      ]_vars

\* C8 happens: Erase of a non-null id that was never issued, with entries in the map
C8_Witness ==
    \E t \in threads :
        /\ ret[t].op = "Erase"
        /\ ret[t].arg # VK_NULL_HANDLE
        /\ ret[t].arg \notin IssuedIds
        /\ ret[t].ret = InvalidHandle
        /\ unique_id_mapping # << >>

\* C9: an entry of the identity map keeps its real handle through every step that is
\* not Erase of its own id, and every id in the map maps to the one real handle
\* WrapNew was given for it
C9_EraseOnlyRemoval ==
    [][ /\ \A id \in DOMAIN unique_id_mapping :
              \/ /\ id \in DOMAIN unique_id_mapping'
                 /\ unique_id_mapping'[id] = unique_id_mapping[id]
              \/ \E t \in threads : Erase(t, id)
        /\ \A id \in DOMAIN unique_id_mapping' :
              /\ id \in {issued'[i].id : i \in DOMAIN issued'}
              /\ \A i \in DOMAIN issued' :
                    issued'[i].id = id => issued'[i].real = unique_id_mapping'[id]
      ]_vars

\* C9 happens: the first entry is still mapped after later wraps, a display wrap and
\* the Erase of another id
C9_Witness ==
    /\ Len(issued) >= 3
    /\ issued[1].id \in DOMAIN unique_id_mapping
    /\ unique_id_mapping[issued[1].id] = issued[1].real
    /\ erased # {}
    /\ display_id_reverse_mapping # << >>

----------------------------------------------------------------------------
(* Properties of the small_container *)

\* C10: in every state a sequence of insert, erase and clear leads to, within the
\* inline capacity or beyond it, contains, count, size, empty, the inserted flag of
\* insert and the count returned by erase are those of the plain hash map
C10_SameResultsAsPlain ==
    /\ size = Cardinality(plain)
    /\ empty = (plain = {})
    /\ \A key \in Keys :
          /\ contains(key) = PlainContains(key)
          /\ count(key) = (IF PlainContains(key) THEN 1 ELSE 0)
          /\ erase_count(key) = PlainEraseCount(key)
    /\ \A value \in value_type : insert_second(value) = PlainInsertSecond(value)

\* C10 happens: more than N keys were stored, and an inline slot was freed again
\* while the overflow container holds a key
C10_Witness ==
    /\ inner_cont # {}
    /\ FreeSlots # {}
    /\ size > 0
    /\ \E i \in Slots : small_data_allocated[i]

----------------------------------------------------------------------------
(* Properties of the small_vector *)

ConstructOps == {"small_vector", "copy_construct", "move_construct"}

MoveOps == {"move_construct", "move_assign"}

\* the step runs shrink_to_fit on v, or ends v's lifetime and constructs it anew
ShrunkOrConstructed(v) ==
    /\ last_op'.v = v
    /\ last_op'.op \in ConstructOps \cup {"shrink_to_fit"}

\* the step moves from v
MovedFrom(v) == last_op'.v # v /\ last_op'.op \in MoveOps

\* the step is operation op on v, run to its end
Ran(op, v) == last_op' = LastOp(op, v) /\ ~assert_failed'

\* C11: on a default-constructed small_vector that has only been pushed to, a push at
\* a size below N makes no new store and leaves the capacity N, and the push at size N
\* makes a new store once
C11_PushAllocation ==
    [][ \A v \in Vectors :
            (Ran("emplace_back", v) /\ pushed_only[v]) =>
                /\ vec[v].size_ < N =>
                      /\ vec'[v].allocations = 0
                      /\ vec'[v].capacity_ = N
                      /\ vec'[v].large_store_ = nullptr
                      /\ vec'[v].working_store_ = "small_store_"
                /\ vec[v].size_ = N =>
                      /\ vec[v].large_store_ = nullptr
                      /\ vec'[v].allocations = 1
                      /\ vec'[v].large_store_ # nullptr
                      /\ vec'[v].working_store_ = "large_store_"
      ]_vars

\* C11 happens: N + 1 pushes on a default-constructed small_vector, the last of them
\* with a new store
C11_Witness ==
    \E v \in Vectors :
        /\ pushed_only[v]
        /\ last_op = LastOp("emplace_back", v)
        /\ vec[v].size_ = N + 1
        /\ vec[v].allocations = 1

\* C12: shrink_to_fit on a heap-backed small_vector of at most N elements leaves it on
\* its inline storage: capacity N and no large store
C12_ShrinkToInline ==
    [][ \A v \in Vectors :
            (ShrinkToFit(v) /\ vec[v].large_store_ # nullptr /\ vec[v].size_ <= N) =>
                /\ vec'[v].capacity_ = N
                /\ vec'[v].large_store_ = nullptr
                /\ vec'[v].working_store_ = "small_store_"
      ]_vars

\* C13 as stated: a heap-backed small_vector stays heap-backed through every step that
\* is not shrink_to_fit on it
C13_NeverMigratesBack ==
    [][ \A v \in Vectors :
            (vec[v].large_store_ # nullptr /\ ~ShrunkOrConstructed(v))
                => vec'[v].large_store_ # nullptr
      ]_vars

\* C13: a heap-backed small_vector stays heap-backed through push, resize, reserve,
\* clear, copy in either role and move as destination; a move from it takes its store
\* and leaves it empty on its inline storage
C13_MigratesBackOnShrinkOrMoveFrom ==
    [][ \A v \in Vectors :
            (vec[v].large_store_ # nullptr /\ ~ShrunkOrConstructed(v)) =>
                IF MovedFrom(v)
                THEN /\ vec'[v].large_store_ = nullptr
                     /\ vec'[v].capacity_ = N
                     /\ vec'[v].size_ = 0
                ELSE vec'[v].large_store_ # nullptr
      ]_vars

\* C13 happens: a heap-backed small_vector has been cleared and keeps its store, next
\* to one that a move has taken the store from
C13_Witness ==
    \E v \in Vectors : \E other \in Vectors \ {v} :
        /\ last_op = LastOp("clear", v)
        /\ vec[v].large_store_ # nullptr
        /\ vec[v].capacity_ > N
        /\ vec[other].large_store_ # nullptr

\* C14: a move construction or move assignment gives the destination the source's
\* elements in order; a heap-backed source is left empty, and an inline source keeps
\* its store and has its elements moved from one by one
C14_MoveSemantics ==
    [][ \A v \in Vectors : \A other \in Vectors \ {v} :
            (Ran("move_construct", v) \/ Ran("move_assign", v)) =>
                /\ vec'[v].store = vec[other].store
                /\ vec'[v].size_ = vec[other].size_
                /\ IF vec[other].large_store_ # nullptr
                   THEN /\ vec'[other].size_ = 0
                        /\ vec'[other].store = << >>
                        /\ vec'[v].large_store_ = vec[other].large_store_
                        /\ vec'[v].allocations = 0
                   ELSE /\ vec'[other].large_store_ = nullptr
                        /\ vec'[other].capacity_ = N
                        /\ \A i \in DOMAIN vec'[other].store :
                              vec'[other].store[i] = value_type_default
                        /\ vec'[v].capacity_ >= vec[v].capacity_
                           \/ last_op'.op = "move_construct"
      ]_vars

\* C14 happens: a move assignment from a heap-backed source with more than N elements
\* of different values
C14_Witness ==
    \E v \in Vectors : \E other \in Vectors \ {v} :
        /\ last_op = LastOp("move_assign", v)
        /\ vec[v].large_store_ # nullptr
        /\ vec[v].size_ > N
        /\ \E i, j \in DOMAIN vec[v].store : vec[v].store[i] # vec[v].store[j]
        /\ vec[v].allocations = 0
        /\ vec[other].size_ = 0
        /\ vec[other].large_store_ = nullptr

----------------------------------------------------------------------------
(* Properties of the TlsGuard *)

\* C15 as stated: the payload is Initialized or Reset; a validate-phase guard's
\* construction takes Reset to Initialized, the destruction of a guard whose persist_
\* is not set takes Initialized to Reset, and that of a persisting guard leaves
\* Initialized
C15_TwoStates ==
    [][ \A t \in AllThreads :
            /\ HasValue(t)' \in BOOLEAN
            /\ ((\E args \in Payloads : TlsGuard_validate(t, args)) /\ ~HasValue(t))
                  => HasValue(t)'
            /\ (TlsGuard_dtor(t) /\ HasValue(t) /\ ~guard[t].persist_) => ~HasValue(t)'
            /\ (TlsGuard_dtor(t) /\ HasValue(t) /\ guard[t].persist_) => HasValue(t)'
      ]_vars

\* C15: as above, but the destruction of a guard whose persist_ is not set takes
\* Initialized to Reset only for a record-phase guard (skip_ null) or a validate-phase
\* guard whose skip is set; a validate-phase guard whose skip is not set leaves
\* Initialized for the record phases of the call
C15_TwoStatesSkip ==
    [][ \A t \in AllThreads :
            /\ HasValue(t)' \in BOOLEAN
            /\ ((\E args \in Payloads : TlsGuard_validate(t, args)) /\ ~HasValue(t))
                  => HasValue(t)'
            /\ (TlsGuard_dtor(t) /\ HasValue(t) /\ ~guard[t].persist_) =>
                  (HasValue(t)' <=> (guard[t].skip_ # "nullptr" /\ ~skip[t]))
            /\ (TlsGuard_dtor(t) /\ HasValue(t) /\ guard[t].persist_) => HasValue(t)'
            /\ \A u \in AllThreads \ {t} :
                  ((\E args \in Payloads : TlsGuard_validate(t, args)) \/ TlsGuard_dtor(t)) => payload_'[u] = payload_[u]
      ]_vars

\* C15 happens: a call went through validate, a persisting pre-record guard and its
\* last guard, and the payload is Reset again while the other thread's is Initialized
C15_Witness ==
    \E t \in AllThreads : \E u \in AllThreads \ {t} :
        /\ tls_pc[t] = "idle"
        /\ ~HasValue(t)
        /\ ~skip[t]
        /\ ~guard[t].alive
        /\ tls_pc[u] = "recorded"
        /\ HasValue(u)
        /\ ~tls_assert_failed

----------------------------------------------------------------------------
(* Properties of the dispatch *)

\* the components of the events of phase p in the trace, in the order they ran
RanPhase(p) ==
    LET at == SelectSeq(dispatch_trace, LAMBDA ev : ev.phase = p)
    IN  [i \in DOMAIN at |-> at[i].vo]

\* the phases of the trace, in order, with the component each ran on
PhasesRun == [i \in DOMAIN dispatch_trace |->
                 <<dispatch_trace[i].phase, dispatch_trace[i].vo>>]

\* what a call that no component vetoes runs on the components of list
Protocol(list) ==
    [i \in DOMAIN list |-> <<"PreCallValidate", list[i]>>]
        \o << <<"Unwrap", chassis>> >>
        \o [i \in DOMAIN list |-> <<"PreCallRecord", list[i]>>]
        \o << <<"Forward", chassis>>, <<"WrapNew", chassis>> >>
        \o [i \in DOMAIN list |-> <<"PostCallRecord", list[i]>>]

IsPrefix(a, b) == Len(a) <= Len(b) /\ a = SubSeq(b, 1, Len(a))

TableBuilt == scope_state \in {"InitComponents", "Active"}

\* C16: for every entry point the fast-dispatch list is the active chain filtered for
\* the components that override the entry point, in the same order, and a call runs
\* its callbacks on exactly those components in that order
C16_FastPathEquivalence ==
    TableBuilt =>
        /\ \A e \in EntryPoints :
              intercept_vectors[e] = ImplementedBy(object_dispatch, e)
        /\ call.phase = "returned" =>
              RanPhase("PreCallValidate") = ImplementedBy(object_dispatch, call.entry)

\* C16 happens: a call has returned on an entry point that some active component
\* overrides and another does not, with a component in the aborted chain
C16_Witness ==
    /\ scope_state = "Active"
    /\ call.phase = "returned"
    /\ aborted_object_dispatch # << >>
    /\ intercept_vectors[call.entry] # << >>
    /\ intercept_vectors[call.entry] # object_dispatch
    /\ RanPhase("PreCallValidate") = intercept_vectors[call.entry]

\* C17: once a component has vetoed, the call runs nothing but pre-call-validate, it
\* runs it on every component of the entry point, and it returns without unwrap,
\* record phases, forward or wrap
C17_VetoSemantics ==
    call.skip =>
        /\ \A i \in DOMAIN dispatch_trace : dispatch_trace[i].phase = "PreCallValidate"
        /\ IsPrefix(RanPhase("PreCallValidate"), intercept_vectors[call.entry])
        /\ call.phase \in {"PreCallValidate", "returned"}
        /\ call.phase = "returned" =>
              RanPhase("PreCallValidate") = intercept_vectors[call.entry]

\* C17 happens: of three components the second has vetoed, the first and the third
\* have run pre-call-validate, and the call has returned
C17_Witness ==
    /\ call.phase = "returned"
    /\ call.skip
    /\ Len(dispatch_trace) = 3
    /\ ~dispatch_trace[1].veto
    /\ dispatch_trace[2].veto
    /\ ~dispatch_trace[3].veto
    /\ dispatch_trace[3].phase = "PreCallValidate"

\* C18: a call that no component vetoes runs pre-call-validate, unwrap,
\* pre-call-record, forward, wrap, post-call-record in this order, each phase on the
\* components of the entry point in chain order
C18_PhaseOrder ==
    (call.phase # "none" /\ ~call.skip) =>
        /\ IsPrefix(PhasesRun, Protocol(intercept_vectors[call.entry]))
        /\ call.phase = "returned" => PhasesRun = Protocol(intercept_vectors[call.entry])
        /\ \A i, j \in DOMAIN intercept_vectors[call.entry] :
              i < j => intercept_vectors[call.entry][i] < intercept_vectors[call.entry][j]

\* C18 happens: a call through three components has run all its phases and returned
C18_Witness ==
    /\ call.phase = "returned"
    /\ ~call.skip
    /\ Len(intercept_vectors[call.entry]) = 3
    /\ Len(dispatch_trace) = 12
    /\ dispatch_trace[12] = Event("PostCallRecord", 3, FALSE)

C20_AbortedChain ==
    [][ /\ \A c \in Components :
              ComponentInit(c, FALSE) =>
                  /\ c \in Range(aborted_object_dispatch')
                  /\ c \notin Range(object_dispatch')
        /\ TableBuilt' =>
              /\ Range(aborted_object_dispatch') \cap Range(object_dispatch') = {}
              /\ object_dispatch' =
                     SelectInOrder(PriorityOrder,
                                   settings' \ Range(aborted_object_dispatch'))
              /\ \A e \in EntryPoints :
                    Range(intercept_vectors'[e]) \cap Range(aborted_object_dispatch') = {}
              /\ \A i \in DOMAIN dispatch_trace' :
                    dispatch_trace'[i].vo \notin Range(aborted_object_dispatch')
      ]_vars

\* C20 happens: the second of three enabled components is in the aborted chain, and a
\* call has run on the first and the third
C20_Witness ==
    /\ scope_state = "Active"
    /\ aborted_object_dispatch = <<2>>
    /\ object_dispatch = <<1, 3>>
    /\ call.phase = "returned"
    /\ ~call.skip
    /\ RanPhase("PostCallRecord") = <<1, 3>>

InitDeferredOperations ==
    InitHandleWrapper({}, 0, {StdHash}) /\ InitSmallContainer /\ InitSmallVector
        /\ InitTlsGuard /\ InitNoDispatch /\ InitTeardown /\ InitDeferred /\ InitNoHash

SpecDeferred == InitDeferredOperations /\ [][NextDeferred]_vars

InitHashedUint64 ==
    InitHandleWrapper({}, 0, HashFunctions) /\ InitSmallContainer /\ InitSmallVector
        /\ InitTlsGuard /\ InitNoDispatch /\ InitTeardown /\ InitDeferred /\ InitHash

SpecHash == InitHashedUint64 /\ [][NextHash]_vars

----------------------------------------------------------------------------
(* Claims on the teardown of a scope *)

----------------------------------------------------------------------------
(* Claims on the bookkeeping of deferred operations *)

Occurrences(list, id) == Cardinality({i \in DOMAIN list : list[i].id = id})

InMap(map, id) ==
    Cardinality({p \in UNION {{op} \X DOMAIN map[op] : op \in DOMAIN map} :
                    map[p[1]][p[2]].id = id})

Invocations(id) == Cardinality({i \in DOMAIN invoked : invoked[i].callback.id = id})

----------------------------------------------------------------------------
(* Claims on the storage of small_vector *)

\* C23: a small_vector holds a heap-backed store only when its capacity is greater
\* than N and holds none only when its capacity equals N, and no assertion of
\* reserve, ComputeWorkingStore or MoveLargeStore fails
C23_StoreMatchesCapacity ==
    /\ \A v \in Vectors :
           /\ vec[v].large_store_ # nullptr => vec[v].capacity_ > kSmallCapacity
           /\ vec[v].large_store_ = nullptr => vec[v].capacity_ = kSmallCapacity
    /\ ~assert_failed

----------------------------------------------------------------------------
(* Claims on the assertions of TlsGuard *)

\* C24: when every call runs its validate-phase guard and then, unless validate set
\* skip, its record-phase guards (a persisting one only before a last, non-persisting
\* one), no assertion of TlsGuard fails: the payload is absent wherever a
\* validate-phase guard is constructed, and present wherever a record-phase guard is
\* constructed or a guard is destroyed
C24_AssertionsHold ==
    /\ ~tls_assert_failed
    /\ \A t \in AllThreads :
           /\ tls_pc[t] = "idle" => ~HasValue(t)
           /\ tls_pc[t] \in {"validated", "recorded"} => HasValue(t)
           /\ guard[t].alive => HasValue(t)

\* one thread is in the last record phase of a call that had a persisting pre-record
\* guard, after the other has ended a call whose validate set skip
C24_Witness ==
    \E t \in AllThreads : \E u \in AllThreads \ {t} :
        /\ tls_pc[t] = "LastRecord"
        /\ guard[t].alive
        /\ ~guard[t].persist_
        /\ tls_pc[u] = "idle"
        /\ skip[u]
        /\ ~guard[u].alive

----------------------------------------------------------------------------
(* Claims on the operations of small_vector *)

\* C25: move construction leaves the source with size 0, inline or heap-backed; move
\* assignment leaves the size of a source without large store as it was and empties
\* a source with a large store
C25_MoveSourceSize ==
    [][ \A v \in Vectors : \A other \in Vectors \ {v} :
            /\ Ran("move_construct", v) => vec'[other].size_ = 0 /\ vec'[other].store = << >>
            /\ Ran("move_assign", v) =>
                   vec'[other].size_ =
                       IF vec[other].large_store_ # nullptr THEN 0 ELSE vec[other].size_
      ]_vars

\* a move assignment from an inline source with elements has left the source its size
C25_Witness ==
    \E v \in Vectors : \E other \in Vectors \ {v} :
        /\ last_op = LastOp("move_assign", v)
        /\ ~assert_failed
        /\ vec[other].large_store_ = nullptr
        /\ vec[other].size_ = N
        /\ vec[v].size_ = N

----------------------------------------------------------------------------
(* Claims on the slots of small_container *)

\* C26: a step that adds a key to the overflow container is taken only with all N
\* inline slots occupied; a step that adds a key while a slot is free fills the
\* first free slot and leaves the overflow container alone, whatever it holds; and
\* no key of the overflow container is found in an inline slot after any step
C26_InlineFirst ==
    [][ /\ (inner_cont' # inner_cont /\ inner_cont \subseteq inner_cont') => FreeSlots = {}
        /\ \A i \in Slots :
               (~small_data_allocated[i] /\ small_data_allocated'[i]) =>
                   /\ i = FirstSlot(FreeSlots)
                   /\ inner_cont' = inner_cont
                   /\ \/ insert_ret' = [index |-> i, second |-> TRUE]
                      \/ subscript_ret'.added
        /\ \A e \in inner_cont : \A i \in Slots :
               ~(small_data_allocated'[i] /\ small_data'[i].first = e.first)
      ]_vars

\* an insert has put a new key into an inline slot that an erase had freed, while
\* the overflow container held an element, and the element is still there
C26_Witness ==
    /\ insert_ret.second
    /\ insert_ret.index \in Slots
    /\ inner_cont # {}
    /\ FreeSlots = {}

----------------------------------------------------------------------------
(* Claims on HashedUint64 *)

\* the id is a counter value below 2^HASHED_UINT64_SHIFT
BelowShift(id) == id.hi = 0

\* C27: for an id below 2^40, hash(id) has id in its low 40 bits and the low 24 bits
\* of vvl::hash(id) in its high 24 bits, operator() of the result is those 24 bits,
\* and two different ids below 2^40 give different results; the hash of a counter
\* value used by WrapNew is this function
C27_HashLayout ==
    /\ \A c \in Calls :
           (hash_out[c].returned /\ BelowShift(hash_in[c].id)) =>
               /\ hash_out[c].value.lo = hash_in[c].id.lo
               /\ hash_out[c].value.hi = hash_in[c].h.lo % HighRange
               /\ HashedUint64_call(hash_out[c].value) = hash_in[c].h.lo % HighRange
    /\ \A c, d \in Calls :
           (/\ hash_out[c].returned /\ hash_out[d].returned
            /\ BelowShift(hash_in[c].id) /\ BelowShift(hash_in[d].id)
            /\ hash_in[c].id # hash_in[d].id) => hash_out[c].value # hash_out[d].value
    /\ \A id \in CounterValues :
           HashedUint64_hash(id) = HashedUint64_hash_bits(U64(0, id), U64(0, vvl_hash[id]))

\* two ids below 2^40 that differ were hashed, with hash values that have bits above
\* the 24 kept and agree in those 24
C27_Witness ==
    /\ \A c \in Calls : hash_out[c].returned /\ BelowShift(hash_in[c].id)
    /\ hash_in["first"].id # hash_in["second"].id
    /\ hash_in["first"].id.lo >= 2 ^ 30
    /\ hash_in["first"].h.lo = HighRange + 1
    /\ hash_in["second"].h.lo = 1
    /\ hash_out["first"].value.hi = hash_out["second"].value.hi

\* C28: in every state of a small_vector, whatever operations led to it, size is at
\* most capacity, capacity is at least N, and the elements constructed are size many
C28_SizeCapacity ==
    \A v \in Vectors :
        /\ vec[v].size_ <= vec[v].capacity_
        /\ vec[v].capacity_ >= N
        /\ Len(vec[v].store) = vec[v].size_

\* a vector was shrunk from the large store to inline capacity N with elements
\* left, while the other holds N + 1 elements in a larger store
C28_Witness ==
    \E v \in Vectors : \E other \in Vectors \ {v} :
        /\ last_op = LastOp("shrink_to_fit", v)
        /\ vec[v].size_ = N - 1
        /\ vec[v].capacity_ = N
        /\ vec[v].allocations = 0
        /\ vec[other].size_ = N + 1
        /\ vec[other].capacity_ > N + 1

\* C29: reserve and shrink_to_fit leave size and elements, in their order, as they
\* were, in every storage mode; resize(count) leaves the first min(size, count)
\* elements as they were and sets size to count
C29_ElementsKept ==
    [][ \A v \in Vectors :
            /\ (Ran("reserve", v) \/ Ran("shrink_to_fit", v)) =>
                   /\ vec'[v].size_ = vec[v].size_
                   /\ vec'[v].store = vec[v].store
            /\ \A cnt \in 0..MaxSize :
                   ResizeVector(v, cnt) =>
                       /\ vec'[v].size_ = cnt
                       /\ Len(vec'[v].store) = cnt
                       /\ \A i \in 1..cnt : i <= vec[v].size_ => vec'[v].store[i] = vec[v].store[i]
      ]_vars

\* C30: a push onto a small_vector whose size equals its capacity takes a new
\* heap-backed store of exactly size + 1, so the capacity equals the size again; on
\* a vector grown by pushes only that is every push from size N on
C30_PushGrowsByOne ==
    [][ \A v \in Vectors :
            Ran("emplace_back", v) =>
                /\ vec[v].size_ = vec[v].capacity_ =>
                       /\ vec'[v].capacity_ = vec[v].size_ + 1
                       /\ vec'[v].capacity_ = vec'[v].size_
                       /\ vec'[v].allocations = 1
                       /\ vec'[v].large_store_ = vec[v].size_ + 1
                       /\ vec'[v].working_store_ = "large_store_"
                /\ (pushed_only[v] /\ vec[v].size_ >= N) => vec[v].size_ = vec[v].capacity_
                /\ vec'[v].store = Append(vec[v].store, vec'[v].store[Len(vec'[v].store)])
      ]_vars

\* the third push past N on a vector grown by pushes only has taken a new store
C30_Witness ==
    \E v \in Vectors :
        /\ pushed_only[v]
        /\ last_op = LastOp("emplace_back", v)
        /\ vec[v].size_ = N + 3
        /\ vec[v].capacity_ = N + 3
        /\ vec[v].allocations = 1

----------------------------------------------------------------------------
(* Claims on the keys of small_container and on operator[] *)

StoredKeys == {key \in Keys : contains(key)}

\* C31: in every state that insert, operator[], erase and clear lead to, no key is
\* in two allocated inline slots, no key is in an allocated inline slot and in the
\* overflow container, no key is twice in the overflow container, and size() is the
\* number of distinct keys stored
C31_KeysOnce ==
    /\ \A i, j \in Slots :
           (/\ small_data_allocated[i] /\ small_data_allocated[j]
            /\ small_data[i].first = small_data[j].first) => i = j
    /\ \A i \in Slots : small_data_allocated[i] => ~InnerFinds(small_data[i].first)
    /\ \A e, f \in inner_cont : e.first = f.first => e = f
    /\ size = Cardinality(StoredKeys)

\* operator[] was called on a key held by the overflow container while an inline
\* slot was free, and every key is stored
C31_Witness ==
    /\ subscript_ret.second # "none"
    /\ ~subscript_ret.added
    /\ inner_cont # {}
    /\ FreeSlots # {}
    /\ \E e \in inner_cont : e.second = subscript_ret.second /\ e.second # T_default

\* C33: operator[] on a key that is not stored stores the key with T(), returns T()
\* and raises size() by one, whatever the slot it takes held before; on a stored key
\* it returns the T stored with the key and changes nothing
C33_Subscript ==
    [][ \A key \in Keys :
            Subscript(key) =>
                IF ~contains(key)
                THEN /\ size' = size + 1
                     /\ contains(key)'
                     /\ mapped(key)' = T_default
                     /\ subscript_ret'.second = T_default
                     /\ \A other \in StoredKeys :
                            contains(other)' /\ mapped(other)' = mapped(other)
                ELSE /\ size' = size
                     /\ subscript_ret'.second = mapped(key)
                     /\ UNCHANGED <<small_data_allocated, small_data, inner_cont>>
      ]_vars

\* operator[] has added a key in an inline slot that held another key with another
\* value before an erase
C33_Witness ==
    /\ subscript_ret.added
    /\ subscript_ret.second = T_default
    /\ subscript_ret.over.first \in Keys
    /\ subscript_ret.over.second # T_default
    /\ \E i \in Slots :
           /\ small_data_allocated[i]
           /\ small_data[i].second = T_default
           /\ small_data[i].first # subscript_ret.over.first

\* the elements a small_container stores
Stored == inner_cont \cup {small_data[i] : i \in {j \in Slots : small_data_allocated[j]}}

\* C32: the loop from begin() with operator++ has not reached end() before size()
\* steps and is at end() after size() steps; by then it has visited every stored
\* element once, those of the allocated slots before those of the overflow
\* container; on an empty container begin() equals end()
C32_Iteration ==
    iter # NoIterator =>
        /\ Len(visited) <= size
        /\ iterator_equal(iter, container_end) <=> Len(visited) = size
        /\ iter.index >= N => iter.it # Singular
        /\ \A a, b \in DOMAIN visited : visited[a] = visited[b] => a = b
        /\ \A a \in DOMAIN visited : visited[a] \in Stored
        /\ \A a, b \in DOMAIN visited :
               (a < b /\ visited[a] \in inner_cont) => visited[b] \in inner_cont
        /\ Len(visited) = size => {visited[a] : a \in DOMAIN visited} = Stored

\* the loop has ended on a container with a free slot below an allocated one and
\* two elements in the overflow container
C32_Witness ==
    /\ iter # NoIterator
    /\ iterator_equal(iter, container_end)
    /\ Len(visited) = size
    /\ ~small_data_allocated[0]
    /\ small_data_allocated[N - 1]
    /\ Cardinality(inner_cont) = 2

----------------------------------------------------------------------------
(* Claims on the display reverse map *)

\* what HandleWrapper::Unwrap returns for a handle in the current state
Unwrapped(wrapped_handle) ==
    IF wrapped_handle = VK_NULL_HANDLE THEN wrapped_handle
    ELSE IF wrapped_handle \notin DOMAIN unique_id_mapping THEN InvalidHandle
    ELSE unique_id_mapping[wrapped_handle]

\* C34: in every state, also with MaybeWrapDisplay calls of two threads interleaved,
\* an entry (real -> id) of the display reverse map with a non-null real handle has
\* Unwrap(id) = real, unless id has been erased
C34_ReverseMatchesForward ==
    \A real \in DOMAIN display_id_reverse_mapping :
        (real # VK_NULL_HANDLE /\ display_id_reverse_mapping[real] \notin erased)
            => Unwrapped(display_id_reverse_mapping[real]) = real

\* two MaybeWrapDisplay calls on one handle have each wrapped it, the id of one has
\* been erased and the reverse map holds the other
C34_Witness ==
    \E h \in RealHandles \ {VK_NULL_HANDLE} :
        /\ Cardinality(IssuedByDisplay(h)) = 2
        /\ h \in DOMAIN display_id_reverse_mapping
        /\ display_id_reverse_mapping[h] \notin erased
        /\ erased # {}
        /\ Unwrapped(display_id_reverse_mapping[h]) = h

----------------------------------------------------------------------------
(* Claims on the TlsGuard of a vetoed call *)

\* C35: a thread that is between calls, also after a call whose validate-phase guard
\* was destroyed with its skip not set and that another component vetoed, has its
\* payload in state Reset, so the next validate-phase guard finds it absent
C35_ResetAfterVeto ==
    \A t \in AllThreads :
        (tls_pc[t] = "idle" /\ ~guard[t].alive /\ ~tls_assert_failed) => ~HasValue(t)

============================================================================
